---- MODULE Spec2Model ----
(***************************************************************************)
(* Model of the batch-analyzer read path: the /api/reports route           *)
(* (parseReportsDirectory) scanning the reports root, the per-artifact     *)
(* payload parser inside it, and the ProgressionAnalysis view of the web   *)
(* UI that consumes the returned collections; and of the write path: the   *)
(* RunAnalysisModal form, the /api/run-analysis route and the orchestrator *)
(* process it spawns.  Further the overview's list (search, score filter,  *)
(* sort order, loading and error state), the progression table, and the    *)
(* route that serves a report file with the links that address it.         *)
(*                                                                         *)
(* Strings of the program (directory names, file names, URLs, timestamps)  *)
(* are sequences of one-character strings, so that the regular expression, *)
(* substring and percent-decoding steps are computed, not assumed.         *)
(* An optional JavaScript value (undefined | v) is <<>> | <<v>>.           *)
(***************************************************************************)
EXTENDS Integers, Sequences, FiniteSets, TLC

VARIABLES
    root,            \* the reports root on disk: [exists, entries]
    response,        \* <<>>, or <<body>> of the last GET /api/reports while
                     \* the reports root is as that request found it
    artifact,        \* content of the artifact handed to the per-file parser
    parsed,          \* <<>> before parsing, <<ReportFile>> after
    collections,     \* ReportsOverview: the fetched list of collections
    selectedCollection, \* ReportsOverview: <<>> (null) or <<collection>>
    selectedRun,     \* ReportDetails: <<>> (undefined) or <<run>>
    selectedUrl,     \* ReportDetails: <<>> (null) or <<url>>
    progressionData, \* the series rendered by ProgressionAnalysis
    loading,         \* ReportsOverview: a fetch of /api/reports is under way
    error,           \* ReportsOverview: <<>> (null) or <<message>>
    searchTerm,      \* ReportsOverview: the text of the search box
    sortBy,          \* ReportsOverview: the selected SortOption
    filterBy,        \* ReportsOverview: the selected FilterOption
    outside,         \* names of the plain files next to the reports directory
    served,          \* <<>>, or <<request and response>> of the last
                     \* GET /api/reports/<directory>/<filename>
    form,            \* RunAnalysisModal: the config being edited
    request,         \* <<>>, or <<config>> posted to /api/run-analysis and
                     \* not yet handled
    requests,        \* number of requests posted so far
    http,            \* <<>>, or <<response>> of the last POST handled
    tempFiles,       \* temporary URL files present in temp/
    tempWritten,     \* temporary URL files ever written (fs.writeFileSync)
    timers,          \* pending setTimeout clean-ups, by temporary file
    cliExists,       \* whether ../target/release/batch_analyzer exists
    proc             \* the spawned orchestrator process

parserVars == <<artifact, parsed>>
uiVars == <<collections, selectedCollection, selectedRun, selectedUrl,
            progressionData>>
overviewVars == <<loading, error, searchTerm, sortBy, filterBy>>
fileVars == <<outside, served>>
batchVars == <<form, request, requests, http, tempFiles, tempWritten, timers,
               cliExists, proc>>
vars == <<root, response, parserVars, uiVars, overviewVars, fileVars,
          batchVars>>

None == <<>>
Some(v) == <<v>>
IsSome(o) == o # <<>>
Val(o) == o[1]

----------------------------------------------------------------------------
(* Characters and small string helpers                                     *)

Digits == {"0", "1", "2", "3", "4", "5", "6", "7", "8", "9"}

DigitVal(c) ==
    CASE c = "0" -> 0 [] c = "1" -> 1 [] c = "2" -> 2 [] c = "3" -> 3
      [] c = "4" -> 4 [] c = "5" -> 5 [] c = "6" -> 6 [] c = "7" -> 7
      [] c = "8" -> 8 [] c = "9" -> 9

\* String.prototype.substring(from, to) with 0-based, end-exclusive indices
\* (indices past the end are clamped to the length)
substring(s, from, to) ==
    SubSeq(s, from + 1, IF to > Len(s) THEN Len(s) ELSE to)

\* Number(...) of a string of decimal digits
RECURSIVE ToNumber(_)
ToNumber(s) ==
    IF s = <<>> THEN 0
    ELSE 10 * ToNumber(SubSeq(s, 1, Len(s) - 1)) + DigitVal(s[Len(s)])

\* a character that /[^0-9]/ does not match
IsDigit(c) == c \in Digits

AllDigits(s) == \A i \in 1..Len(s) : s[i] \in Digits

\* String.prototype.endsWith
endsWith(s, suffix) ==
    /\ Len(s) >= Len(suffix)
    /\ SubSeq(s, Len(s) - Len(suffix) + 1, Len(s)) = suffix

\* UTF-16 code units of the characters the model uses (digits apart)
CharTable ==
    {<<" ", 32>>, <<"%", 37>>, <<"-", 45>>, <<".", 46>>, <<"/", 47>>,
     <<":", 58>>, <<"A", 65>>, <<"B", 66>>, <<"C", 67>>, <<"D", 68>>,
     <<"E", 69>>, <<"F", 70>>, <<"_", 95>>, <<"a", 97>>, <<"b", 98>>,
     <<"c", 99>>, <<"d", 100>>, <<"e", 101>>, <<"f", 102>>, <<"h", 104>>,
     <<"i", 105>>, <<"l", 108>>, <<"m", 109>>, <<"n", 110>>, <<"o", 111>>,
     <<"p", 112>>, <<"q", 113>>, <<"r", 114>>, <<"s", 115>>, <<"t", 116>>,
     <<"u", 117>>, <<"x", 120>>,
     <<"U+233", 233>>}

\* String.prototype.charCodeAt(0) of a one-character string
CharCode(c) ==
    IF c \in Digits THEN 48 + DigitVal(c)
    ELSE IF \E p \in CharTable : p[1] = c
         THEN (CHOOSE p \in CharTable : p[1] = c)[2]
         ELSE 65533

\* String.fromCharCode(code)
Chr(code) ==
    IF code \in 48..57 THEN (CHOOSE c \in Digits : DigitVal(c) = code - 48)
    ELSE IF \E p \in CharTable : p[2] = code
         THEN (CHOOSE p \in CharTable : p[2] = code)[1]
         ELSE "U+" \o ToString(code)

\* The default comparison of Array.prototype.sort on strings: code unit order
RECURSIVE StrLess(_, _)
StrLess(a, b) ==
    IF a = <<>> THEN b # <<>>
    ELSE IF b = <<>> THEN FALSE
    ELSE IF a[1] = b[1] THEN StrLess(Tail(a), Tail(b))
    ELSE CharCode(a[1]) < CharCode(b[1])

StrLeq(a, b) == a = b \/ StrLess(a, b)

----------------------------------------------------------------------------
(* Run directory names: /^(.+)_(\d{8})_(\d{6})$/ and the timestamp         *)

\* "." of a JavaScript regular expression: any character but a line terminator
IsDotChar(c) == c \notin {"\n", "\r"}

\* MatchRunDir with the date group written \d{7}
MatchRunDirSevenDigits(dirName) ==
    LET n == Len(dirName) IN
    IF /\ n >= 16
       /\ \A i \in 1..(n - 15) : IsDotChar(dirName[i])
       /\ dirName[n - 14] = "_"
       /\ AllDigits(SubSeq(dirName, n - 13, n - 7))
       /\ dirName[n - 6] = "_"
       /\ AllDigits(SubSeq(dirName, n - 5, n))
    THEN Some([name |-> SubSeq(dirName, 1, n - 15),
               date |-> SubSeq(dirName, n - 13, n - 7),
               time |-> SubSeq(dirName, n - 5, n)])
    ELSE None

\* dirName.match(/^(.+)_(\d{8})_(\d{6})$/): <<>> when there is no match, else
\* <<[name, date, time]>>. The tail _dddddddd_dddddd has a fixed length of 16
\* and is anchored at the end, so the greedy (.+) is the remaining prefix.
MatchRunDir(dirName) ==
    LET n == Len(dirName) IN
    IF /\ n >= 17
       /\ \A i \in 1..(n - 16) : IsDotChar(dirName[i])
       /\ dirName[n - 15] = "_"
       /\ AllDigits(SubSeq(dirName, n - 14, n - 7))
       /\ dirName[n - 6] = "_"
       /\ AllDigits(SubSeq(dirName, n - 5, n))
    THEN Some([name |-> SubSeq(dirName, 1, n - 16),
               date |-> SubSeq(dirName, n - 14, n - 7),
               time |-> SubSeq(dirName, n - 5, n)])
    ELSE None

\* `${date.substring(0,4)}-${date.substring(4,6)}-${date.substring(6,8)}
\*   ${time.substring(0,2)}:${time.substring(2,4)}:${time.substring(4,6)}`
MakeTimestamp(date, time) ==
    substring(date, 0, 4) \o <<"-">> \o substring(date, 4, 6) \o <<"-">>
      \o substring(date, 6, 8) \o <<" ">> \o substring(time, 0, 2) \o <<":">>
      \o substring(time, 2, 4) \o <<":">> \o substring(time, 4, 6)

\* ECMAScript DayFromYear(y), for y >= 1970
DayFromYear(y) ==
    365 * (y - 1970) + ((y - 1969) \div 4) - ((y - 1901) \div 100)
      + ((y - 1601) \div 400)

IsLeapYear(y) == (y % 4 = 0) /\ ((y % 100 # 0) \/ (y % 400 = 0))

\* days before the first of month m (1..12) in year y
DaysBeforeMonth(y, m) ==
    LET common == <<0, 31, 59, 90, 120, 151, 181, 212, 243, 273, 304, 334>>
    IN common[m] + (IF m > 2 /\ IsLeapYear(y) THEN 1 ELSE 0)

\* new Date(timestamp).getTime() for a "YYYY-MM-DD HH:MM:SS" string, in
\* seconds (the millisecond value divided by 1000; only its sign and
\* differences are used), local time zone UTC. <<>> is NaN (Invalid Date).
\* The engine's date parser accepts month 1..12, day 1..31 (a day past the
\* end of the month rolls over into the next month), hour 0..23 or 24:00:00,
\* minute and second 0..59.
getTime(timestamp) ==
    LET y  == ToNumber(substring(timestamp, 0, 4))
        mo == ToNumber(substring(timestamp, 5, 7))
        d  == ToNumber(substring(timestamp, 8, 10))
        h  == ToNumber(substring(timestamp, 11, 13))
        mi == ToNumber(substring(timestamp, 14, 16))
        s  == ToNumber(substring(timestamp, 17, 19))
        timeOk == \/ (h <= 23 /\ mi <= 59 /\ s <= 59)
                  \/ (h = 24 /\ mi = 0 /\ s = 0)
        shaped == /\ Len(timestamp) = 19
                  /\ \A i \in 1..19 :
                       IF i \in {5, 8} THEN timestamp[i] = "-"
                       ELSE IF i = 11 THEN timestamp[i] = " "
                       ELSE IF i \in {14, 17} THEN timestamp[i] = ":"
                       ELSE timestamp[i] \in Digits
    IN IF shaped /\ y >= 1970 /\ mo \in 1..12 /\ d \in 1..31 /\ timeOk
       THEN Some((DayFromYear(y) + DaysBeforeMonth(y, mo) + (d - 1)) * 86400
                   + h * 3600 + mi * 60 + s)
       ELSE None

\* The comparator of runs.sort: new Date(b.timestamp).getTime() -
\* new Date(a.timestamp).getTime(); <<>> is NaN
CompareRuns(a, b) ==
    LET ta == getTime(a.timestamp)
        tb == getTime(b.timestamp)
    IN IF IsSome(ta) /\ IsSome(tb) THEN Some(Val(tb) - Val(ta)) ELSE None

\* Array.prototype.sort with CompareRuns: a stable sort in which a comparator
\* result of NaN counts as +0 (ECMAScript SortCompare). Insertion of each
\* element behind the last element it does not strictly precede.
RECURSIVE InsertRun(_, _)
InsertRun(sorted, run) ==
    IF sorted = <<>> THEN <<run>>
    ELSE LET last == sorted[Len(sorted)]
             c == CompareRuns(run, last)
         IN IF IsSome(c) /\ Val(c) < 0
            THEN Append(InsertRun(SubSeq(sorted, 1, Len(sorted) - 1), run), last)
            ELSE Append(sorted, run)

RECURSIVE SortRuns(_)
SortRuns(runs) ==
    IF runs = <<>> THEN <<>>
    ELSE InsertRun(SortRuns(SubSeq(runs, 1, Len(runs) - 1)), runs[Len(runs)])

----------------------------------------------------------------------------
(* decodeURIComponent (ECMAScript Decode with an empty reserved set)       *)

HexDigits == Digits \cup {"a", "b", "c", "d", "e", "f",
                          "A", "B", "C", "D", "E", "F"}

HexVal(c) ==
    IF c \in Digits THEN DigitVal(c)
    ELSE CASE c \in {"a", "A"} -> 10 [] c \in {"b", "B"} -> 11
           [] c \in {"c", "C"} -> 12 [] c \in {"d", "D"} -> 13
           [] c \in {"e", "E"} -> 14 [] c \in {"f", "F"} -> 15

\* the octet of the escape %XY starting at position k, <<>> if it is none
OctetAt(s, k) ==
    IF /\ k + 2 <= Len(s)
       /\ s[k] = "%"
       /\ s[k + 1] \in HexDigits
       /\ s[k + 2] \in HexDigits
    THEN Some(16 * HexVal(s[k + 1]) + HexVal(s[k + 2]))
    ELSE None

\* number of octets of the UTF-8 sequence a leading octet announces
\* (0: not a valid leading octet)
Utf8Length(b) ==
    IF b < 128 THEN 1
    ELSE IF b \in 192..223 THEN 2
    ELSE IF b \in 224..239 THEN 3
    ELSE IF b \in 240..247 THEN 4
    ELSE 0

\* the code point of the n-octet sequence of escapes at k, <<>> if malformed
RECURSIVE Continuation(_, _, _, _)
Continuation(s, k, left, acc) ==
    IF left = 0 THEN Some(acc)
    ELSE LET o == OctetAt(s, k) IN
         IF IsSome(o) /\ Val(o) \in 128..191
         THEN Continuation(s, k + 3, left - 1, acc * 64 + (Val(o) - 128))
         ELSE None

CodePointAt(s, k, b) ==
    LET n == Utf8Length(b)
        lead == IF n = 2 THEN b - 192 ELSE IF n = 3 THEN b - 224 ELSE b - 240
        cp == Continuation(s, k + 3, n - 1, lead)
    IN IF n = 0 \/ ~IsSome(cp) THEN None
       ELSE IF \/ (n = 2 /\ Val(cp) < 128)
               \/ (n = 3 /\ (Val(cp) < 2048 \/ Val(cp) \in 55296..57343))
               \/ (n = 4 /\ (Val(cp) < 65536 \/ Val(cp) > 1114111))
            THEN None
            ELSE cp

\* decodeURIComponent(s) from position k on: <<decoded>>, or <<>> when it
\* throws URIError
RECURSIVE DecodeFrom(_, _)
DecodeFrom(s, k) ==
    IF k > Len(s) THEN Some(<<>>)
    ELSE IF s[k] # "%"
    THEN LET rest == DecodeFrom(s, k + 1) IN
         IF IsSome(rest) THEN Some(<<s[k]>> \o Val(rest)) ELSE None
    ELSE LET o == OctetAt(s, k) IN
         IF ~IsSome(o) THEN None
         ELSE IF Val(o) < 128
         THEN LET rest == DecodeFrom(s, k + 3) IN
              IF IsSome(rest) THEN Some(<<Chr(Val(o))>> \o Val(rest)) ELSE None
         ELSE LET cp == CodePointAt(s, k, Val(o))
                  rest == DecodeFrom(s, k + 3 * Utf8Length(Val(o)))
              IN IF IsSome(cp) /\ IsSome(rest)
                 THEN Some(<<Chr(Val(cp))>> \o Val(rest))
                 ELSE None

decodeURIComponent(s) == DecodeFrom(s, 1)

\* try { url = decodeURIComponent(url) } catch (e) { console.warn(...) }:
\* the raw string is kept when decoding throws
DecodeOrKeep(url) ==
    LET d == decodeURIComponent(url) IN IF IsSome(d) THEN Val(d) ELSE url

----------------------------------------------------------------------------
(* The per-artifact parser (the body of htmlFiles.map)                     *)

\* Math.round(num / den) for num >= 0, den > 0: halves round up
MathRound(num, den) == (2 * num + den) \div (2 * den)

\* ScorePercent with Math.floor for Math.round
ScorePercentFloor(permille) == permille \div 10

\* Math.round(category.score * 100), the score given in thousandths
ScorePercent(permille) == MathRound(permille, 10)

NoMetrics ==
    [performance |-> None, accessibility |-> None,
     bestPractices |-> None, seo |-> None]

MetricKeys == <<"performance", "accessibility", "bestPractices", "seo">>

\* metrics as filled from lighthouseData.categories: a category that is
\* absent leaves its key unset; "best-practices" is stored as bestPractices
ExtractMetrics(data) ==
    IF ~IsSome(data.categories) THEN NoMetrics
    ELSE LET cats == Val(data.categories)
             pct(c) == IF IsSome(c) THEN Some(ScorePercent(Val(c))) ELSE None
         IN [performance   |-> pct(cats.performance),
             accessibility |-> pct(cats.accessibility),
             bestPractices |-> pct(cats.bestPractices),
             seo           |-> pct(cats.seo)]

\* Object.values(metrics): the values of the keys that are set
RECURSIVE MetricValuesFrom(_, _)
MetricValuesFrom(metrics, i) ==
    IF i > Len(MetricKeys) THEN <<>>
    ELSE (IF IsSome(metrics[MetricKeys[i]])
          THEN <<Val(metrics[MetricKeys[i]])>> ELSE <<>>)
         \o MetricValuesFrom(metrics, i + 1)

MetricValues(metrics) == MetricValuesFrom(metrics, 1)

RECURSIVE SumSeq(_)
SumSeq(q) == IF q = <<>> THEN 0 ELSE q[1] + SumSeq(Tail(q))

\* score = values.length > 0 ? Math.round(total / values.length) : 0
OverallScore(metrics) ==
    LET values == MetricValues(metrics) IN
    IF Len(values) > 0 THEN MathRound(SumSeq(values), Len(values)) ELSE 0

\* url = lighthouseData.finalDisplayedUrl; if (url) url = decode-or-keep
ExtractUrl(data) ==
    IF IsSome(data.finalDisplayedUrl) /\ Val(data.finalDisplayedUrl) # <<>>
    THEN Some(DecodeOrKeep(Val(data.finalDisplayedUrl)))
    ELSE data.finalDisplayedUrl

\* ParseArtifact with score initialised to 0 (let score = 0)
ParseArtifactZeroDefault(filename, content) ==
    IF content.kind = "payload"
    THEN LET metrics == ExtractMetrics(content.data) IN
         [filename |-> filename,
          url      |-> ExtractUrl(content.data),
          score    |-> Some(OverallScore(metrics)),
          metrics  |-> metrics]
    ELSE [filename |-> filename, url |-> None, score |-> Some(0),
          metrics |-> NoMetrics]

\* ParseArtifact without the inner try/catch around decodeURIComponent: the
\* URIError reaches the catch of the file, after url was assigned
ParseArtifactNoInnerCatch(filename, content) ==
    IF content.kind = "payload"
         /\ ~(/\ IsSome(content.data.finalDisplayedUrl)
              /\ Val(content.data.finalDisplayedUrl) # <<>>
              /\ ~IsSome(decodeURIComponent(Val(content.data.finalDisplayedUrl))))
    THEN LET metrics == ExtractMetrics(content.data) IN
         [filename |-> filename,
          url      |-> ExtractUrl(content.data),
          score    |-> Some(OverallScore(metrics)),
          metrics  |-> metrics]
    ELSE [filename |-> filename,
          url |-> IF content.kind = "payload"
                  THEN content.data.finalDisplayedUrl ELSE None,
          score |-> None,
          metrics |-> NoMetrics]

\* One element of reportFiles. content.kind is what reading and matching the
\* file gives: "unreadable" (readFileSync throws), "nomarker" (the regular
\* expression does not match), "malformed" (JSON.parse throws) or "payload"
\* (content.data is the parsed lighthouseData object)
ParseArtifact(filename, content) ==
    IF content.kind = "payload"
    THEN LET metrics == ExtractMetrics(content.data) IN
         [filename |-> filename,
          url      |-> ExtractUrl(content.data),
          score    |-> Some(OverallScore(metrics)),
          metrics  |-> metrics]
    ELSE [filename |-> filename, url |-> None, score |-> None,
          metrics |-> NoMetrics]

----------------------------------------------------------------------------
(* Building the runs (the loop over directories)                           *)

HtmlSuffix == <<".", "h", "t", "m", "l">>
InfoFileName == <<"i", "n", "f", "o", ".", "t", "x", "t">>

RECURSIVE SelectHtml(_)
SelectHtml(files) ==
    IF files = <<>> THEN <<>>
    ELSE (IF endsWith(files[1].filename, HtmlSuffix) THEN <<files[1]>> ELSE <<>>)
         \o SelectHtml(Tail(files))

\* info = fs.readFileSync(path.join(dirPath, "info.txt")) when it exists
ReadInfo(files) ==
    IF \E i \in 1..Len(files) : files[i].filename = InfoFileName
    THEN LET i == CHOOSE j \in 1..Len(files) : files[j].filename = InfoFileName
         IN Some(files[i].content.text)
    ELSE None

\* MapParse that leaves out the artifacts without a payload
RECURSIVE MapParseDropFailed(_)
MapParseDropFailed(htmlFiles) ==
    IF htmlFiles = <<>> THEN <<>>
    ELSE (IF htmlFiles[1].content.kind = "payload"
          THEN <<ParseArtifact(htmlFiles[1].filename, htmlFiles[1].content)>>
          ELSE <<>>)
         \o MapParseDropFailed(Tail(htmlFiles))

RECURSIVE MapParse(_)
MapParse(htmlFiles) ==
    IF htmlFiles = <<>> THEN <<>>
    ELSE <<ParseArtifact(htmlFiles[1].filename, htmlFiles[1].content)>>
         \o MapParse(Tail(htmlFiles))

\* file.score || 0
ScoreOrZero(file) == IF IsSome(file.score) THEN Val(file.score) ELSE 0

RECURSIVE TotalScore(_)
TotalScore(reportFiles) ==
    IF reportFiles = <<>> THEN 0
    ELSE ScoreOrZero(reportFiles[1]) + TotalScore(Tail(reportFiles))

\* AvgScore dividing by the number of artifacts that have a score
AvgScoreOfParsed(reportFiles) ==
    LET n == Cardinality({i \in 1..Len(reportFiles) : IsSome(reportFiles[i].score)})
    IN IF n > 0 THEN MathRound(TotalScore(reportFiles), n) ELSE 0

\* avgScore = reportFiles.length > 0 ? Math.round(total / length) : 0
AvgScore(reportFiles) ==
    IF Len(reportFiles) > 0
    THEN MathRound(TotalScore(reportFiles), Len(reportFiles))
    ELSE 0

\* BuildRun that stores the base name as full_name
BuildRunFullNameIsName(dirent, m) ==
    LET reportFiles == MapParse(SelectHtml(dirent.files)) IN
    [name      |-> m.name,
     timestamp |-> MakeTimestamp(m.date, m.time),
     full_name |-> m.name,
     reports   |-> reportFiles,
     avgScore  |-> AvgScore(reportFiles),
     info      |-> ReadInfo(dirent.files)]

\* The run pushed for a matching, listable directory
BuildRun(dirent, m) ==
    LET reportFiles == MapParse(SelectHtml(dirent.files)) IN
    [name      |-> m.name,
     timestamp |-> MakeTimestamp(m.date, m.time),
     full_name |-> dirent.name,
     reports   |-> reportFiles,
     avgScore  |-> AvgScore(reportFiles),
     info      |-> ReadInfo(dirent.files)]

\* readdirSync(reportsPath, {withFileTypes}).filter(isDirectory)
RECURSIVE ListDirectories(_)
ListDirectories(entries) ==
    IF entries = <<>> THEN <<>>
    ELSE (IF entries[1].isDirectory THEN <<entries[1]>> ELSE <<>>)
         \o ListDirectories(Tail(entries))

\* BuildRuns that takes a directory for a run only once its info.txt is
\* there
RECURSIVE BuildRunsCompleteOnly(_)
BuildRunsCompleteOnly(directories) ==
    IF directories = <<>> THEN [threw |-> FALSE, runs |-> <<>>]
    ELSE LET d == directories[1]
             m == MatchRunDir(d.name)
             rest == BuildRunsCompleteOnly(Tail(directories))
         IN IF ~IsSome(m) THEN rest
            ELSE IF ~d.listable THEN [threw |-> TRUE, runs |-> <<>>]
            ELSE IF rest.threw THEN rest
            ELSE IF ~IsSome(ReadInfo(d.files)) THEN rest
            ELSE [threw |-> FALSE,
                  runs |-> <<BuildRun(d, Val(m))>> \o rest.runs]

\* The loop over the directories: [threw, runs]. readdirSync(dirPath) of a
\* matching directory that cannot be listed throws out of the loop.
RECURSIVE BuildRuns(_)
BuildRuns(directories) ==
    IF directories = <<>> THEN [threw |-> FALSE, runs |-> <<>>]
    ELSE LET d == directories[1]
             m == MatchRunDir(d.name)
             rest == BuildRuns(Tail(directories))
         IN IF ~IsSome(m) THEN rest
            ELSE IF ~d.listable THEN [threw |-> TRUE, runs |-> <<>>]
            ELSE IF rest.threw THEN rest
            ELSE [threw |-> FALSE,
                  runs |-> <<BuildRun(d, Val(m))>> \o rest.runs]

----------------------------------------------------------------------------
(* Grouping the runs into collections and ordering them                    *)

\* Properties every object literal inherits from Object.prototype: a lookup
\* collections[name] of one of these names is truthy although the object has
\* no such own property
ObjectPrototypeKeys ==
    {<<"c", "o", "n", "s", "t", "r", "u", "c", "t", "o", "r">>,
     <<"t", "o", "S", "t", "r", "i", "n", "g">>,
     <<"v", "a", "l", "u", "e", "O", "f">>,
     <<"_", "_", "p", "r", "o", "t", "o", "_", "_">>}

\* Array.prototype.sort() without comparator on strings: ascending code
\* unit order (stable insertion)
RECURSIVE InsertString(_, _)
InsertString(sorted, x) ==
    IF sorted = <<>> THEN <<x>>
    ELSE IF StrLess(x, sorted[Len(sorted)])
    THEN Append(InsertString(SubSeq(sorted, 1, Len(sorted) - 1), x),
                sorted[Len(sorted)])
    ELSE Append(sorted, x)

RECURSIVE SortStrings(_)
SortStrings(q) ==
    IF q = <<>> THEN <<>>
    ELSE InsertString(SortStrings(SubSeq(q, 1, Len(q) - 1)), q[Len(q)])

\* run.reports.map((r) => r.url || "")
RECURSIVE UrlsOrEmpty(_)
UrlsOrEmpty(reportFiles) ==
    IF reportFiles = <<>> THEN <<>>
    ELSE <<IF IsSome(reportFiles[1].url) THEN Val(reportFiles[1].url) ELSE <<>>>>
         \o UrlsOrEmpty(Tail(reportFiles))

\* CollectionUrls without the sort
CollectionUrlsUnsorted(run) == UrlsOrEmpty(run.reports)

\* The urls of a collection created for `run`
CollectionUrls(run) == SortStrings(UrlsOrEmpty(run.reports))

HasOwn(cols, name) == \E i \in 1..Len(cols) : cols[i].name = name

\* GroupStep that takes the urls of every run it pushes
GroupStepLastWins(cols, run) ==
    IF HasOwn(cols, run.name)
    THEN Some([i \in 1..Len(cols) |->
                 IF cols[i].name = run.name
                 THEN [cols[i] EXCEPT !.runs = Append(@, run),
                                      !.urls = CollectionUrls(run)]
                 ELSE cols[i]])
    ELSE IF run.name \in ObjectPrototypeKeys
    THEN None
    ELSE Some(Append(cols, [name |-> run.name,
                            urls |-> CollectionUrls(run),
                            runs |-> <<run>>]))

\* One iteration of the grouping loop on the own properties `cols` (in
\* insertion order): <<>> when collections[run.name].runs.push throws
\* TypeError (the name resolves to an inherited property, which has no runs)
GroupStep(cols, run) ==
    IF HasOwn(cols, run.name)
    THEN Some([i \in 1..Len(cols) |->
                 IF cols[i].name = run.name
                 THEN [cols[i] EXCEPT !.runs = Append(@, run)]
                 ELSE cols[i]])
    ELSE IF run.name \in ObjectPrototypeKeys
    THEN None
    ELSE Some(Append(cols, [name |-> run.name,
                            urls |-> CollectionUrls(run),
                            runs |-> <<run>>]))

RECURSIVE GroupRuns(_, _)
GroupRuns(cols, runs) ==
    IF runs = <<>> THEN Some(cols)
    ELSE LET next == GroupStep(cols, runs[1]) IN
         IF IsSome(next) THEN GroupRuns(Val(next), Tail(runs)) ELSE None

\* FinishCollection that leaves lastRun unset
FinishCollectionWithoutLastRun(col) ==
    [name    |-> col.name,
     urls    |-> col.urls,
     runs    |-> SortRuns(col.runs),
     lastRun |-> None]

\* collections[name].runs.sort(...); collections[name].lastRun = runs[0]
FinishCollection(col) ==
    LET sorted == SortRuns(col.runs) IN
    [name    |-> col.name,
     urls    |-> col.urls,
     runs    |-> sorted,
     lastRun |-> IF sorted = <<>> THEN None ELSE Some(sorted[1])]

\* A property key that is an array index ("0", or digits without a leading
\* zero, below 2^32 - 1): such keys come first in Object.values, in numeric
\* order
MaxArrayIndex == <<"4", "2", "9", "4", "9", "6", "7", "2", "9", "4">>

IsArrayIndex(name) ==
    /\ name # <<>>
    /\ AllDigits(name)
    /\ (Len(name) = 1 \/ name[1] # "0")
    /\ (Len(name) < 10 \/ (Len(name) = 10 /\ StrLeq(name, MaxArrayIndex)))

IndexLess(a, b) == Len(a) < Len(b) \/ (Len(a) = Len(b) /\ StrLess(a, b))

RECURSIVE SelectCols(_, _)
SelectCols(cols, wantIndex) ==
    IF cols = <<>> THEN <<>>
    ELSE (IF IsArrayIndex(cols[1].name) = wantIndex THEN <<cols[1]>> ELSE <<>>)
         \o SelectCols(Tail(cols), wantIndex)

RECURSIVE InsertByIndex(_, _)
InsertByIndex(sorted, col) ==
    IF sorted = <<>> THEN <<col>>
    ELSE IF IndexLess(col.name, sorted[Len(sorted)].name)
    THEN Append(InsertByIndex(SubSeq(sorted, 1, Len(sorted) - 1), col),
                sorted[Len(sorted)])
    ELSE Append(sorted, col)

RECURSIVE SortByIndex(_)
SortByIndex(cols) ==
    IF cols = <<>> THEN <<>>
    ELSE InsertByIndex(SortByIndex(SubSeq(cols, 1, Len(cols) - 1)),
                       cols[Len(cols)])

\* Object.values(collections): array-index keys ascending, then the other
\* keys in insertion order
ObjectValues(cols) ==
    SortByIndex(SelectCols(cols, TRUE)) \o SelectCols(cols, FALSE)

\* ParseOutcome without the existsSync test: readdirSync of the missing
\* directory throws ENOENT into the outer catch
ParseOutcomeNoExistsCheck(r) ==
    IF ~r.exists THEN [threw |-> TRUE, value |-> <<>>]
    ELSE LET built == BuildRuns(ListDirectories(r.entries)) IN
         IF built.threw THEN [threw |-> TRUE, value |-> <<>>]
         ELSE LET grouped == GroupRuns(<<>>, built.runs) IN
              IF ~IsSome(grouped) THEN [threw |-> TRUE, value |-> <<>>]
              ELSE [threw |-> FALSE,
                    value |-> ObjectValues(
                                [i \in 1..Len(Val(grouped)) |->
                                   FinishCollection(Val(grouped)[i])])]

\* parseReportsDirectory with its outcome made visible: threw is TRUE when
\* the outer catch block ran (which logs the error and returns [])
ParseOutcome(r) ==
    IF ~r.exists THEN [threw |-> FALSE, value |-> <<>>]
    ELSE LET built == BuildRuns(ListDirectories(r.entries)) IN
         IF built.threw THEN [threw |-> TRUE, value |-> <<>>]
         ELSE LET grouped == GroupRuns(<<>>, built.runs) IN
              IF ~IsSome(grouped) THEN [threw |-> TRUE, value |-> <<>>]
              ELSE [threw |-> FALSE,
                    value |-> ObjectValues(
                                [i \in 1..Len(Val(grouped)) |->
                                   FinishCollection(Val(grouped)[i])])]

\* parseReportsDirectory that leaves out the directories it cannot process
\* and returns the collections of the others
parseReportsDirectorySkippingFailures(r) ==
    LET processable(d) ==
            \/ ~d.isDirectory
            \/ ~IsSome(MatchRunDir(d.name))
            \/ /\ d.listable
               /\ Val(MatchRunDir(d.name)).name \notin ObjectPrototypeKeys
    IN ParseOutcome([r EXCEPT !.entries = SelectSeq(r.entries, processable)]).value

parseReportsDirectory(r) == ParseOutcome(r).value

----------------------------------------------------------------------------
(* ProgressionAnalysis: the series of one URL over the runs of a collection *)

\* value ?? 0
OrZero(o) == IF IsSome(o) THEN Val(o) ELSE 0

\* FindReport that takes the last report of the url
FindReportLast(reportFiles, url) ==
    IF \E m \in 1..Len(reportFiles) : reportFiles[m].url = Some(url)
    THEN LET m == CHOOSE k \in 1..Len(reportFiles) :
                    /\ reportFiles[k].url = Some(url)
                    /\ \A l \in (k + 1)..Len(reportFiles) :
                         reportFiles[l].url # Some(url)
         IN Some(reportFiles[m])
    ELSE None

\* run.reports.find((r) => r.url === selectedUrl): the first such report
FindReport(reportFiles, url) ==
    IF \E m \in 1..Len(reportFiles) : reportFiles[m].url = Some(url)
    THEN LET m == CHOOSE k \in 1..Len(reportFiles) :
                    /\ reportFiles[k].url = Some(url)
                    /\ \A l \in 1..(k - 1) : reportFiles[l].url # Some(url)
         IN Some(reportFiles[m])
    ELSE None

ChartDataPoint(run, report) ==
    [name          |-> run.timestamp,
     performance   |-> OrZero(report.metrics.performance),
     accessibility |-> OrZero(report.metrics.accessibility),
     bestPractices |-> OrZero(report.metrics.bestPractices),
     seo           |-> OrZero(report.metrics.seo),
     overall       |-> OrZero(report.score),
     info          |-> run.info]

\* collection.runs.map(...).filter((data) => data !== null)
RECURSIVE PointsOf(_, _)
PointsOf(runs, url) ==
    IF runs = <<>> THEN <<>>
    ELSE LET report == FindReport(runs[1].reports, url) IN
         (IF IsSome(report) THEN <<ChartDataPoint(runs[1], Val(report))>> ELSE <<>>)
         \o PointsOf(Tail(runs), url)

\* Array.prototype.reverse
Reverse(q) == [i \in 1..Len(q) |-> q[Len(q) + 1 - i]]

\* progressionData of ProgressionAnalysis({collection, selectedUrl}); no
\* series is computed while selectedUrl is null or ""
ProgressionAnalysis(collection, url) ==
    IF ~IsSome(url) \/ Val(url) = <<>> THEN <<>>
    ELSE Reverse(PointsOf(collection.runs, Val(url)))

\* The metrics of a point of the series
ProgressionMetrics ==
    {"performance", "accessibility", "bestPractices", "seo", "overall"}

\* The differences shown in the rows of the progression table: for the row
\* at `index` (from 1), isFirst ? 0 : data.metric - firstData.metric with
\* firstData = progressionData[0]
ProgressionDiffs(data, index) ==
    LET isFirst == index = 1
        firstData == data[1]
    IN [metric \in ProgressionMetrics |->
          IF isFirst THEN 0 ELSE data[index][metric] - firstData[metric]]

----------------------------------------------------------------------------
(* The inputs the model draws from                                         *)

MaxDirs == 2        \* entries in the reports root
MaxFiles == 2       \* files written over all run directories

NameA == <<"a">>
Name7 == <<"7">>
NameConstructor == <<"c", "o", "n", "s", "t", "r", "u", "c", "t", "o", "r">>

Date0101 == <<"2", "0", "2", "5", "0", "1", "0", "1">>
Date0202 == <<"2", "0", "2", "5", "0", "2", "0", "2">>
Date0303 == <<"2", "0", "2", "5", "0", "3", "0", "3">>
Date1301 == <<"2", "0", "2", "5", "1", "3", "0", "1">>  \* month 13
Date7Digits == <<"2", "0", "2", "5", "0", "1", "0">>
Time000000 == <<"0", "0", "0", "0", "0", "0">>

\* base_YYYYMMDD_HHMMSS, the name the orchestrator gives a run directory
RunDirName(base, date, time) == base \o <<"_">> \o date \o <<"_">> \o time

Dirent(name, isDir, listable) ==
    [name |-> name, isDirectory |-> isDir, listable |-> listable, files |-> <<>>]

\* Entries that may appear in the reports root: run directories of two base
\* names, one whose digits are no calendar date, one whose base name is an
\* inherited property name, a directory that misses the pattern by a digit,
\* and a plain file with a run-like name
Dirents ==
    {Dirent(RunDirName(NameA, Date0101, Time000000), TRUE, TRUE),
     Dirent(RunDirName(NameA, Date0202, Time000000), TRUE, TRUE),
     Dirent(RunDirName(NameA, Date1301, Time000000), TRUE, TRUE),
     Dirent(RunDirName(Name7, Date0101, Time000000), TRUE, TRUE),
     Dirent(RunDirName(NameConstructor, Date0101, Time000000), TRUE, TRUE),
     Dirent(RunDirName(NameA, Date7Digits, Time000000), TRUE, TRUE),
     Dirent(RunDirName(NameA, Date0303, Time000000), FALSE, TRUE)}

UrlEncodedA == <<"%", "6", "1">>          \* decodes to "a"
UrlBadEscape == <<"b", "%">>              \* decodeURIComponent throws

Categories(p, a, b, s) ==
    [performance |-> p, accessibility |-> a, bestPractices |-> b, seo |-> s]

Payload(url, cats) ==
    [kind |-> "payload", data |-> [finalDisplayedUrl |-> url, categories |-> cats]]

NoMarkerArtifact == [kind |-> "nomarker"]
MalformedArtifact == [kind |-> "malformed"]

PayloadA ==
    Payload(Some(UrlEncodedA),
            Some(Categories(Some(950), Some(800), Some(1000), Some(900))))
PayloadB ==
    Payload(Some(UrlBadEscape), Some(Categories(Some(505), None, None, Some(300))))
PayloadEmpty == Payload(None, None)

FileP == <<"p", ".", "h", "t", "m", "l">>
FileQ == <<"q", ".", "h", "t", "m", "l">>

File(name, content) == [filename |-> name, content |-> content]

\* Files that may be written into a run directory
Files ==
    {File(FileP, NoMarkerArtifact), File(FileP, PayloadA), File(FileP, PayloadB),
     File(FileQ, MalformedArtifact), File(FileQ, PayloadA),
     File(FileQ, PayloadEmpty)}

----------------------------------------------------------------------------
(* State machine: the reports root on disk and GET /api/reports            *)

NoRoot == [exists |-> FALSE, entries |-> <<>>]

NoArtifact == [kind |-> "none"]

\* RunAnalysisModal's initial config: no name, one empty URL field
InitialConfig == [name |-> <<>>, urls |-> << <<>> >>]

NoProcess == [pc |-> "none"]

\* ReportsOverview's initial state: the fetch of the mount effect is under
\* way, nothing is typed into the search box, "Newest First", "All Scores"
OverviewMounted ==
    /\ loading = TRUE
    /\ error = None
    /\ searchTerm = <<>>
    /\ sortBy = "newest"
    /\ filterBy = "all"

\* nothing has been requested from the file route
FileRouteIdle ==
    /\ outside = {}
    /\ served = None

\* nothing has been submitted and no orchestrator process exists
BatchIdle ==
    /\ form = InitialConfig
    /\ request = None
    /\ requests = 0
    /\ http = None
    /\ tempFiles = {}
    /\ tempWritten = {}
    /\ timers = {}
    /\ cliExists = TRUE
    /\ proc = NoProcess

Init ==
    /\ root = NoRoot
    /\ response = None
    /\ artifact = NoArtifact
    /\ parsed = None
    /\ collections = <<>>
    /\ selectedCollection = None
    /\ selectedRun = None
    /\ selectedUrl = None
    /\ progressionData = <<>>
    /\ OverviewMounted
    /\ FileRouteIdle
    /\ BatchIdle

RECURSIVE CountFiles(_)
CountFiles(entries) ==
    IF entries = <<>> THEN 0
    ELSE Len(entries[1].files) + CountFiles(Tail(entries))

\* The reports directory is created (first run of the orchestrator)
CreateRoot ==
    /\ ~root.exists
    /\ root' = [root EXCEPT !.exists = TRUE]
    /\ response' = None
    /\ UNCHANGED <<parserVars, fileVars, overviewVars, uiVars, batchVars>>

\* An entry appears in the reports root (a run directory created by the
\* orchestrator, or anything else put there); listings return entries in
\* the order of creation
CreateEntry(e) ==
    /\ root.exists
    /\ Len(root.entries) < MaxDirs
    /\ \A i \in 1..Len(root.entries) : root.entries[i].name # e.name
    /\ root' = [root EXCEPT !.entries = Append(@, e)]
    /\ response' = None
    /\ UNCHANGED <<parserVars, fileVars, overviewVars, uiVars, batchVars>>

\* A file is added to a directory of the reports root; existing files are
\* never rewritten
WriteFile(i, f) ==
    /\ i \in 1..Len(root.entries)
    /\ root.entries[i].isDirectory
    /\ CountFiles(root.entries) < MaxFiles
    /\ \A j \in 1..Len(root.entries[i].files) :
          root.entries[i].files[j].filename # f.filename
    /\ root' = [root EXCEPT !.entries[i].files = Append(@, f)]
    /\ response' = None
    /\ UNCHANGED <<parserVars, fileVars, overviewVars, uiVars, batchVars>>

\* GET that creates the reports directory when it is missing
GETCreatingRoot ==
    /\ response' = Some([reports |-> parseReportsDirectory(root),
                         consoleError |-> ParseOutcome(root).threw])
    /\ root' = [root EXCEPT !.exists = TRUE]
    /\ UNCHANGED <<parserVars, fileVars, overviewVars, uiVars, batchVars>>

\* GET whose runs array outlives the request: a scan adds to what the
\* previous one returned
GETKeepingRuns ==
    /\ response' = Some([reports |-> (IF IsSome(response)
                                      THEN Val(response).reports ELSE <<>>)
                                     \o parseReportsDirectory(root),
                         consoleError |-> ParseOutcome(root).threw])
    /\ UNCHANGED <<root, parserVars, fileVars, overviewVars, uiVars, batchVars>>

\* GET /api/reports: NextResponse.json({ reports: parseReportsDirectory() }).
\* The route keeps nothing between requests; the model remembers the body,
\* and whether the scan logged through console.error, until the next write
\* to the reports root.
GET ==
    /\ response' = Some([reports |-> parseReportsDirectory(root),
                         consoleError |-> ParseOutcome(root).threw])
    /\ UNCHANGED <<root, parserVars, fileVars, overviewVars, uiVars, batchVars>>

Next ==
    \/ CreateRoot
    \/ \E e \in Dirents : CreateEntry(e)
    \/ \E i \in 1..MaxDirs, f \in Files : WriteFile(i, f)
    \/ GET

Spec == Init /\ [][Next]_vars

----------------------------------------------------------------------------
(* A scan of a reports root that holds directories it cannot process       *)

\* Entries of such a root: those of Dirents, a run directory with a report,
\* and directories that cannot be listed, of a run directory's name and of
\* a name that misses the pattern
ScanDirents ==
    Dirents \cup
    {[name |-> RunDirName(NameA, Date0101, Time000000), isDirectory |-> TRUE,
      listable |-> TRUE, files |-> <<File(FileP, PayloadA)>>],
     Dirent(RunDirName(NameA, Date0202, Time000000), TRUE, FALSE),
     Dirent(RunDirName(Name7, Date0101, Time000000), TRUE, FALSE),
     Dirent(RunDirName(NameA, Date7Digits, Time000000), TRUE, FALSE)}

ScanInit ==
    /\ root \in {[exists |-> TRUE, entries |-> es] :
                   es \in {q \in UNION {[1..n -> ScanDirents] : n \in 0..MaxDirs} :
                             \A i, j \in 1..Len(q) :
                                q[i].name = q[j].name => i = j}}
    /\ response = None
    /\ artifact = NoArtifact
    /\ parsed = None
    /\ collections = <<>>
    /\ selectedCollection = None
    /\ selectedRun = None
    /\ selectedUrl = None
    /\ progressionData = <<>>
    /\ OverviewMounted
    /\ FileRouteIdle
    /\ BatchIdle

ScanNext == GET

ScanSpec == ScanInit /\ [][ScanNext]_vars

----------------------------------------------------------------------------
(* The per-artifact parser on its own: one artifact, parsed once           *)

ScoreGrid == 3      \* category scores k/ScoreGrid, k = 0..ScoreGrid

\* category scores in thousandths
GridScores == {(1000 * k) \div ScoreGrid : k \in 0..ScoreGrid}

OptionalScores == {None} \cup {Some(v) : v \in GridScores}

\* canonical URLs of a payload: absent, empty, plain, escaped ASCII, escaped
\* two-octet UTF-8, and escapes that make decodeURIComponent throw
ParserUrls ==
    {None, Some(<<>>), Some(<<"a">>), Some(UrlEncodedA), Some(UrlBadEscape),
     Some(<<"%", "C", "3", "%", "A", "9">>),
     Some(<<"%", "C", "3">>),
     Some(<<"%", "C", "3", "%", "2", "8">>),
     Some(<<"%", "8", "0">>),
     Some(<<"%", "x", "x">>)}

ParserInputs ==
    {NoMarkerArtifact, MalformedArtifact, [kind |-> "unreadable"]}
      \cup {Payload(u, c) : u \in ParserUrls,
                            c \in {None, Some(Categories(None, None, None, None)),
                                   PayloadA.data.categories,
                                   PayloadB.data.categories}}
      \cup {Payload(Some(<<"a">>), Some(Categories(p, a, b, s))) :
              p \in OptionalScores, a \in OptionalScores,
              b \in OptionalScores, s \in OptionalScores}

ParserInit ==
    /\ root = NoRoot
    /\ response = None
    /\ artifact \in ParserInputs
    /\ parsed = None
    /\ collections = <<>>
    /\ selectedCollection = None
    /\ selectedRun = None
    /\ selectedUrl = None
    /\ progressionData = <<>>
    /\ OverviewMounted
    /\ FileRouteIdle
    /\ BatchIdle

\* the callback of htmlFiles.map applied to the artifact
ParseFile ==
    /\ parsed = None
    /\ parsed' = Some(ParseArtifact(FileP, artifact))
    /\ UNCHANGED <<root, response, artifact, uiVars, overviewVars, fileVars,
                   batchVars>>

ParserNext == ParseFile

ParserSpec == ParserInit /\ [][ParserNext]_vars

----------------------------------------------------------------------------
(* The overview and details views over a reports root that does not change *)

MaxRuns == 3        \* run directories in the reports root of the views

PayloadA2 ==
    Payload(Some(<<"a">>),
            Some(Categories(Some(500), Some(800), Some(1000), Some(900))))

\* What a run directory may hold: nothing, the page "a", the page "b%", both,
\* the page "a" twice, or an artifact without payload
ViewFileLists ==
    {<<>>,
     <<File(FileP, PayloadA)>>,
     <<File(FileP, PayloadB)>>,
     <<File(FileP, PayloadB), File(FileQ, PayloadA)>>,
     <<File(FileP, PayloadA2), File(FileQ, PayloadA)>>,
     <<File(FileP, NoMarkerArtifact)>>}

ViewDirNames ==
    {RunDirName(NameA, Date0101, Time000000),
     RunDirName(NameA, Date0202, Time000000),
     RunDirName(NameA, Date0303, Time000000),
     RunDirName(NameA, Date1301, Time000000)}

ViewDirents ==
    {[name |-> n, isDirectory |-> TRUE, listable |-> TRUE, files |-> fl] :
        n \in ViewDirNames, fl \in ViewFileLists}

\* the reports roots the views are opened on: up to MaxRuns run directories
\* of one base name, in any listing order
ViewRoots ==
    {[exists |-> TRUE, entries |-> es] :
        es \in {q \in UNION {[1..n -> ViewDirents] : n \in 0..MaxRuns} :
                  \A i, j \in 1..Len(q) : q[i].name = q[j].name => i = j}}

ViewInit ==
    /\ root \in ViewRoots
    /\ response = None
    /\ artifact = NoArtifact
    /\ parsed = None
    /\ collections = <<>>
    /\ selectedCollection = None
    /\ selectedRun = None
    /\ selectedUrl = None
    /\ progressionData = <<>>
    /\ OverviewMounted
    /\ FileRouteIdle
    /\ BatchIdle

\* fetchCollections: GET /api/reports, then setCollections(data.reports || [])
FetchCollections ==
    /\ selectedCollection = None
    /\ collections' = parseReportsDirectory(root)
    /\ loading' = FALSE
    /\ UNCHANGED <<root, response, parserVars, fileVars, batchVars, selectedCollection,
                   selectedRun, selectedUrl, progressionData, error,
                   searchTerm, sortBy, filterBy>>

\* handleSelectCollection: ReportDetails mounts with selectedRun =
\* collection.runs[0] and selectedUrl = null
SelectCollection(c) ==
    /\ selectedCollection = None
    /\ c \in 1..Len(collections)
    /\ selectedCollection' = Some(collections[c])
    /\ selectedRun' = IF collections[c].runs = <<>> THEN None
                      ELSE Some(collections[c].runs[1])
    /\ selectedUrl' = None
    /\ progressionData' = ProgressionAnalysis(collections[c], None)
    /\ UNCHANGED <<root, response, parserVars, fileVars, overviewVars, batchVars, collections>>

\* the run selector: collection.runs.find((run) => run.timestamp === value)
SelectRun(k) ==
    /\ IsSome(selectedCollection)
    /\ k \in 1..Len(Val(selectedCollection).runs)
    /\ LET runs == Val(selectedCollection).runs
           first == CHOOSE i \in 1..Len(runs) :
                      /\ runs[i].timestamp = runs[k].timestamp
                      /\ \A j \in 1..(i - 1) : runs[j].timestamp # runs[k].timestamp
       IN selectedRun' = Some(runs[first])
    /\ UNCHANGED <<root, response, parserVars, fileVars, overviewVars, batchVars, collections, selectedCollection,
                   selectedUrl, progressionData>>

\* a click on a page of the selected run: setSelectedUrl(pageReport.url ||
\* null), and ProgressionAnalysis renders again
SelectUrl(m) ==
    /\ IsSome(selectedCollection)
    /\ IsSome(selectedRun)
    /\ m \in 1..Len(Val(selectedRun).reports)
    /\ LET url == Val(selectedRun).reports[m].url
           next == IF IsSome(url) /\ Val(url) # <<>> THEN url ELSE None
       IN /\ selectedUrl' = next
          /\ progressionData' = ProgressionAnalysis(Val(selectedCollection), next)
    /\ UNCHANGED <<root, response, parserVars, fileVars, overviewVars, batchVars, collections, selectedCollection,
                   selectedRun>>

\* handleBack: ReportDetails unmounts
Back ==
    /\ IsSome(selectedCollection)
    /\ selectedCollection' = None
    /\ selectedRun' = None
    /\ selectedUrl' = None
    /\ progressionData' = <<>>
    /\ UNCHANGED <<root, response, parserVars, fileVars, overviewVars, batchVars, collections>>

ViewNext ==
    \/ FetchCollections
    \/ \E c \in 1..MaxRuns : SelectCollection(c)
    \/ \E k \in 1..MaxRuns : SelectRun(k)
    \/ \E m \in 1..2 : SelectUrl(m)
    \/ Back

ViewSpec == ViewInit /\ [][ViewNext]_vars

----------------------------------------------------------------------------
(* The overview's list: search box, score filter and sort order, and the   *)
(* fetch of /api/reports with its loading and error state                  *)

SortOptions == {"newest", "oldest", "name", "score", "pages"}
FilterOptions == {"all", "high", "medium", "low"}

\* String.prototype.toLowerCase
toLowerCase(s) ==
    [i \in 1..Len(s) |->
        IF CharCode(s[i]) \in 65..90 THEN Chr(CharCode(s[i]) + 32) ELSE s[i]]

\* String.prototype.includes
includes(s, part) ==
    \E k \in 0..(Len(s) - Len(part)) : SubSeq(s, k + 1, k + Len(part)) = part

\* The callback of collections.filter
MatchesSearchAndFilter(collection, term, filter) ==
    LET matchesSearch ==
            \/ term = <<>>
            \/ includes(toLowerCase(collection.name), toLowerCase(term))
            \/ \E i \in 1..Len(collection.urls) :
                 includes(toLowerCase(collection.urls[i]), toLowerCase(term))
        averageScore == IF IsSome(collection.lastRun)
                        THEN Val(collection.lastRun).avgScore ELSE 0
        matchesFilter ==
            CASE filter = "high" -> averageScore >= 80
              [] filter = "medium" -> averageScore >= 50 /\ averageScore < 80
              [] filter = "low" -> averageScore < 50
              [] OTHER -> TRUE
    IN matchesSearch /\ matchesFilter

\* Collation weights <<primary, secondary, tertiary>> of a character in the
\* root collation of Intl.Collator: punctuation before digits before
\* letters, letters by the alphabet, an accent on the second level, lower
\* case before upper case on the third
CollationWeights(c) ==
    LET code == CharCode(c)
        punctuation == <<" ", "_", "-", ":", ".", "/", "%">>
    IN IF \E k \in 1..Len(punctuation) : punctuation[k] = c
       THEN <<CHOOSE k \in 1..Len(punctuation) : punctuation[k] = c, 0, 0>>
       ELSE IF c \in Digits THEN <<10 + DigitVal(c), 0, 0>>
       ELSE IF code \in 65..90 THEN <<20 + (code - 65), 0, 1>>
       ELSE IF code \in 97..122 THEN <<20 + (code - 97), 0, 0>>
       ELSE IF code = 233 THEN <<24, 1, 0>>
       ELSE <<100, 0, 0>>

\* the sign of the first difference of two sequences of weights, a proper
\* prefix coming first
RECURSIVE CompareWeights(_, _, _)
CompareWeights(a, b, level) ==
    IF a = <<>> THEN (IF b = <<>> THEN 0 ELSE -1)
    ELSE IF b = <<>> THEN 1
    ELSE LET wa == CollationWeights(a[1])[level]
             wb == CollationWeights(b[1])[level]
         IN IF wa < wb THEN -1
            ELSE IF wa > wb THEN 1
            ELSE CompareWeights(Tail(a), Tail(b), level)

\* String.prototype.localeCompare: the first level that tells the strings
\* apart decides
localeCompare(a, b) ==
    IF CompareWeights(a, b, 1) # 0 THEN CompareWeights(a, b, 1)
    ELSE IF CompareWeights(a, b, 2) # 0 THEN CompareWeights(a, b, 2)
    ELSE CompareWeights(a, b, 3)

\* The comparator of the overview's sort; <<>> is NaN
CompareCollections(a, b, by) ==
    IF ~IsSome(a.lastRun) \/ ~IsSome(b.lastRun) THEN Some(0)
    ELSE LET lastRunA == Val(a.lastRun)
             lastRunB == Val(b.lastRun)
             ta == getTime(lastRunA.timestamp)
             tb == getTime(lastRunB.timestamp)
         IN CASE by = "oldest" ->
                   IF IsSome(ta) /\ IsSome(tb) THEN Some(Val(ta) - Val(tb))
                   ELSE None
              [] by = "newest" ->
                   IF IsSome(ta) /\ IsSome(tb) THEN Some(Val(tb) - Val(ta))
                   ELSE None
              [] by = "name" -> Some(localeCompare(a.name, b.name))
              [] by = "score" -> Some(lastRunB.avgScore - lastRunA.avgScore)
              [] by = "pages" ->
                   Some(Len(lastRunB.reports) - Len(lastRunA.reports))
              [] OTHER -> Some(0)

\* Array.prototype.sort with CompareCollections: stable, a comparator result
\* of NaN counting as +0
RECURSIVE InsertCollection(_, _, _)
InsertCollection(sorted, collection, by) ==
    IF sorted = <<>> THEN <<collection>>
    ELSE LET last == sorted[Len(sorted)]
             c == CompareCollections(collection, last, by)
         IN IF IsSome(c) /\ Val(c) < 0
            THEN Append(InsertCollection(SubSeq(sorted, 1, Len(sorted) - 1),
                                         collection, by), last)
            ELSE Append(sorted, collection)

RECURSIVE SortCollections(_, _)
SortCollections(cols, by) ==
    IF cols = <<>> THEN <<>>
    ELSE InsertCollection(SortCollections(SubSeq(cols, 1, Len(cols) - 1), by),
                          cols[Len(cols)], by)

\* collections.filter(...): a new array of the collections that match
filteredCollections ==
    LET keep(collection) == MatchesSearchAndFilter(collection, searchTerm, filterBy)
    IN SelectSeq(collections, keep)

\* collections.filter(...).sort(...): the list the overview renders
filteredAndSortedCollections == SortCollections(filteredCollections, sortBy)

\* What the overview renders
Rendered ==
    IF loading THEN "spinner"
    ELSE IF IsSome(error) THEN "error"
    ELSE IF IsSome(selectedCollection) THEN "details"
    ELSE "list"

NameUpperB == <<"B">>
SearchTerms == {<<>>, <<"A">>}

OverviewFileLists ==
    {<<>>,
     <<File(FileP, PayloadB)>>,
     <<File(FileP, PayloadA2), File(FileQ, PayloadA)>>}

OverviewDirNames ==
    {RunDirName(Name7, Date0101, Time000000),
     RunDirName(NameA, Date0101, Time000000),
     RunDirName(NameA, Date1301, Time000000),
     RunDirName(NameUpperB, Date0202, Time000000)}

\* the reports roots the overview is opened on: up to MaxRuns run
\* directories of three base names, in any listing order
OverviewRoots ==
    {[exists |-> TRUE, entries |-> es] :
        es \in {q \in UNION {[1..n ->
                     {[name |-> n2, isDirectory |-> TRUE, listable |-> TRUE,
                       files |-> fl] :
                        n2 \in OverviewDirNames, fl \in OverviewFileLists}] :
                     n \in 0..MaxRuns} :
                  \A i, j \in 1..Len(q) : q[i].name = q[j].name => i = j}}

OverviewInit ==
    /\ root \in OverviewRoots
    /\ response = None
    /\ artifact = NoArtifact
    /\ parsed = None
    /\ collections = <<>>
    /\ selectedCollection = None
    /\ selectedRun = None
    /\ selectedUrl = None
    /\ progressionData = <<>>
    /\ OverviewMounted
    /\ FileRouteIdle
    /\ BatchIdle

\* fetchReports up to its await: the click on "Try Again"
fetchReports ==
    /\ Rendered = "error"
    /\ loading' = TRUE
    /\ UNCHANGED <<root, response, parserVars, fileVars, uiVars, batchVars, error,
                   searchTerm, sortBy, filterBy>>

\* fetchReports after a response that is ok, clearing the error as well
FetchedClearingError ==
    /\ loading
    /\ collections' = parseReportsDirectory(root)
    /\ error' = None
    /\ loading' = FALSE
    /\ UNCHANGED <<root, response, parserVars, fileVars, batchVars, selectedCollection,
                   selectedRun, selectedUrl, progressionData, searchTerm,
                   sortBy, filterBy>>

\* fetchReports after a response that is ok: setReports(data.reports || []),
\* and setLoading(false) of the finally block
Fetched ==
    /\ loading
    /\ collections' = parseReportsDirectory(root)
    /\ loading' = FALSE
    /\ UNCHANGED <<root, response, parserVars, fileVars, batchVars, selectedCollection,
                   selectedRun, selectedUrl, progressionData, error,
                   searchTerm, sortBy, filterBy>>

\* fetchReports after a rejected fetch or a response that is not ok: the
\* catch block's setError, and setLoading(false) of the finally block
FetchFailed ==
    /\ loading
    /\ error' = Some("Failed to load reports")
    /\ loading' = FALSE
    /\ UNCHANGED <<root, response, parserVars, fileVars, uiVars, batchVars, searchTerm,
                   sortBy, filterBy>>

\* the search box, the sort selector and the filter selector of the list
setSearchTerm(term) ==
    /\ Rendered = "list"
    /\ searchTerm' = term
    /\ UNCHANGED <<root, response, parserVars, fileVars, uiVars, batchVars, loading,
                   error, sortBy, filterBy>>

setSortBy(by) ==
    /\ Rendered = "list"
    /\ sortBy' = by
    /\ UNCHANGED <<root, response, parserVars, fileVars, uiVars, batchVars, loading,
                   error, searchTerm, filterBy>>

setFilterBy(filter) ==
    /\ Rendered = "list"
    /\ filterBy' = filter
    /\ UNCHANGED <<root, response, parserVars, fileVars, uiVars, batchVars, loading,
                   error, searchTerm, sortBy>>

OverviewNext ==
    \/ fetchReports
    \/ Fetched
    \/ FetchFailed
    \/ \E term \in SearchTerms : setSearchTerm(term)
    \/ \E by \in SortOptions : setSortBy(by)
    \/ \E filter \in FilterOptions : setFilterBy(filter)

OverviewSpec == OverviewInit /\ [][OverviewNext]_vars

----------------------------------------------------------------------------
(* GET /api/reports/<directory>/<filename>: the route that serves a report *)
(* file, and the report links of ReportDetails that address it             *)

\* String.prototype.split(sep) for a one-character separator
RECURSIVE split(_, _)
split(s, sep) ==
    IF \E k \in 1..Len(s) : s[k] = sep
    THEN LET k == CHOOSE i \in 1..Len(s) :
                    s[i] = sep /\ \A j \in 1..(i - 1) : s[j] # sep
         IN <<SubSeq(s, 1, k - 1)>> \o split(SubSeq(s, k + 1, Len(s)), sep)
    ELSE <<s>>

\* Array.prototype.join(sep)
RECURSIVE join(_, _)
join(parts, sep) ==
    IF parts = <<>> THEN <<>>
    ELSE IF Len(parts) = 1 THEN parts[1]
    ELSE parts[1] \o sep \o join(Tail(parts), sep)

\* String.prototype.startsWith
startsWith(s, prefix) ==
    Len(s) >= Len(prefix) /\ SubSeq(s, 1, Len(prefix)) = prefix

\* The components of a normalized absolute POSIX path: "" and "." are
\* dropped, ".." removes the component before it (none above the root)
RECURSIVE NormalizeParts(_, _)
NormalizeParts(parts, acc) ==
    IF parts = <<>> THEN acc
    ELSE LET part == parts[1] IN
         IF part = <<>> \/ part = <<".">>
         THEN NormalizeParts(Tail(parts), acc)
         ELSE IF part = <<".", ".">>
         THEN NormalizeParts(Tail(parts),
                             IF acc = <<>> THEN acc
                             ELSE SubSeq(acc, 1, Len(acc) - 1))
         ELSE NormalizeParts(Tail(parts), Append(acc, part))

\* path.normalize of an absolute path without trailing slash
normalize(p) == <<"/">> \o join(NormalizeParts(split(p, "/"), <<>>), <<"/">>)

\* path.join(...paths): the paths joined by "/" and normalized
pathJoin(paths) == normalize(join(paths, <<"/">>))

\* process.cwd() of the web UI, and the name of the reports directory
Cwd == <<"/", "a", "p", "p", "/", "w", "e", "b", "-", "u", "i">>
ReportsName == <<"r", "e", "p", "o", "r", "t", "s">>

\* The file system at the components of an absolute path: the reports root
\* with its run directories and files, the web UI's directory, and the
\* plain files of `outside` next to the reports directory
Stat(parts) ==
    LET app == <<"a", "p", "p">>
        entryAt(name) ==
            {i \in 1..Len(root.entries) : root.entries[i].name = name}
        fileAt(i, name) ==
            {j \in 1..Len(root.entries[i].files) :
                root.entries[i].files[j].filename = name}
    IN IF parts = <<>> \/ parts = <<app>> THEN [kind |-> "directory"]
       ELSE IF parts[1] # app THEN [kind |-> "none"]
       ELSE IF Len(parts) = 2 /\ parts[2] = split(Cwd, "/")[3]
       THEN [kind |-> "directory"]
       ELSE IF Len(parts) = 2 /\ parts[2] \in outside
       THEN [kind |-> "file", content |-> [kind |-> "outside", name |-> parts[2]]]
       ELSE IF parts[2] # ReportsName \/ ~root.exists THEN [kind |-> "none"]
       ELSE IF Len(parts) = 2 THEN [kind |-> "directory"]
       ELSE IF entryAt(parts[3]) = {} THEN [kind |-> "none"]
       ELSE LET i == CHOOSE k \in entryAt(parts[3]) : TRUE IN
            IF Len(parts) = 3
            THEN IF root.entries[i].isDirectory THEN [kind |-> "directory"]
                 ELSE [kind |-> "file", content |-> [kind |-> "entry"]]
            ELSE IF Len(parts) = 4 /\ root.entries[i].isDirectory
                    /\ fileAt(i, parts[4]) # {}
            THEN [kind |-> "file",
                  content |-> root.entries[i].files[
                                 CHOOSE j \in fileAt(i, parts[4]) : TRUE].content]
            ELSE [kind |-> "none"]

\* The handler of the file route for the path segments `reportPath`
ServeFile(reportPath) ==
    IF Len(reportPath) < 2 THEN [status |-> 400]
    ELSE LET directory == reportPath[1]
             filename == reportPath[2]
             reportsDir == pathJoin(<<Cwd, <<".", ".", "/">> \o ReportsName>>)
             filePath == pathJoin(<<reportsDir, directory, filename>>)
             normalizedPath == normalize(filePath)
             normalizedReportsDir == normalize(reportsDir)
             found == Stat(NormalizeParts(split(filePath, "/"), <<>>))
         IN IF ~startsWith(normalizedPath, normalizedReportsDir)
            THEN [status |-> 403]
            ELSE IF found.kind = "none" THEN [status |-> 404]
            ELSE IF found.kind = "directory" THEN [status |-> 500]
            ELSE [status |-> 200, body |-> found.content]

ParentSegment == <<".", ".">>
SiblingName == ReportsName \o <<"-", "o", "l", "d">>
OtherName == <<"x">>

\* path segments a request may carry
FileSegments ==
    {RunDirName(NameA, Date0101, Time000000), FileP, ParentSegment,
     SiblingName, OtherName}

FileRoots ==
    {NoRoot} \cup
    {[exists |-> TRUE, entries |-> es] :
        es \in {q \in UNION {[1..n ->
                     {[name |-> n2, isDirectory |-> TRUE, listable |-> TRUE,
                       files |-> fl] :
                        n2 \in {RunDirName(NameA, Date0101, Time000000),
                                RunDirName(NameA, Date0202, Time000000)},
                        fl \in {<<File(FileP, PayloadA)>>,
                                <<File(FileP, PayloadA2), File(FileQ, PayloadA)>>}}] :
                     n \in 0..MaxDirs} :
                  \A i, j \in 1..Len(q) : q[i].name = q[j].name => i = j}}

FileInit ==
    /\ root \in FileRoots
    /\ response = None
    /\ artifact = NoArtifact
    /\ parsed = None
    /\ collections = <<>>
    /\ selectedCollection = None
    /\ selectedRun = None
    /\ selectedUrl = None
    /\ progressionData = <<>>
    /\ OverviewMounted
    /\ outside \in SUBSET {SiblingName, OtherName}
    /\ served = None
    /\ BatchIdle

\* a request to the file route with the segments `reportPath`
GETFile(reportPath) ==
    /\ served' = Some([path |-> reportPath, link |-> None,
                       response |-> ServeFile(reportPath)])
    /\ UNCHANGED <<root, response, parserVars, uiVars, overviewVars,
                   batchVars, outside>>

\* handleViewReport / handleDownloadReport of the ReportDetails that shows a
\* report {name, timestamp, reports}: the link is opened, and the route
\* receives the segments of its path behind /api/reports/
handleViewReport(m) ==
    /\ IsSome(selectedRun)
    /\ m \in 1..Len(Val(selectedRun).reports)
    /\ LET report == Val(selectedRun)
           filename == report.reports[m].filename
           reportUrl == <<"/", "a", "p", "i", "/">> \o ReportsName \o <<"/">>
                          \o report.name \o <<"_">>
                          \o SelectSeq(report.timestamp, IsDigit)
                          \o <<"/">> \o filename
           segments == split(reportUrl, "/")
           reportPath == [k \in 1..(Len(segments) - 3) |->
                            DecodeOrKeep(segments[k + 3])]
       IN served' = Some([path |-> reportPath,
                          link |-> Some([full_name |-> report.full_name,
                                         filename |-> filename]),
                          response |-> ServeFile(reportPath)])
    /\ UNCHANGED <<root, response, parserVars, uiVars, overviewVars,
                   batchVars, outside>>

FileNext ==
    \/ FetchCollections
    \/ \E c \in 1..MaxDirs : SelectCollection(c)
    \/ \E k \in 1..MaxDirs : SelectRun(k)
    \/ \E m \in 1..2 : handleViewReport(m)
    \/ \E reportPath \in UNION {[1..n -> FileSegments] : n \in 1..2} :
         GETFile(reportPath)

FileSpec == FileInit /\ [][FileNext]_vars

----------------------------------------------------------------------------
(* Starting a batch: the RunAnalysisModal form, POST /api/run-analysis,    *)
(* and the orchestrator process it spawns                                  *)
(*                                                                         *)
(* The orchestrator (the batch_analyzer binary) and its filename sanitizer *)
(* are not part of the web UI sources; they are modelled from their        *)
(* documented behaviour.  The model follows the requests up to and         *)
(* including the first one that spawns an orchestrator, and that           *)
(* orchestrator to its end.                                                *)

MaxUrls == 2        \* URL fields of the form, URLs of a request
MaxRequests == 1    \* requests posted to /api/run-analysis

WhiteSpace == {" ", "\t", "\n", "\r"}

\* String.prototype.trim
RECURSIVE trimStart(_)
trimStart(s) ==
    IF s # <<>> /\ s[1] \in WhiteSpace THEN trimStart(Tail(s)) ELSE s

RECURSIVE trimEnd(_)
trimEnd(s) ==
    IF s # <<>> /\ s[Len(s)] \in WhiteSpace
    THEN trimEnd(SubSeq(s, 1, Len(s) - 1)) ELSE s

trim(s) == trimEnd(trimStart(s))

\* urls.filter((url) => url.trim())
RECURSIVE FilterNonBlank(_)
FilterNonBlank(urls) ==
    IF urls = <<>> THEN <<>>
    ELSE (IF trim(urls[1]) # <<>> THEN <<urls[1]>> ELSE <<>>)
         \o FilterNonBlank(Tail(urls))

\* Names and URLs typed into the form or sent by another client
NameBlank == <<" ">>
UrlBlank == <<" ">>
UrlSlash == <<"x", "/", "y">>
UrlQuery == <<"x", "?", "y">>     \* sanitizes to the same body as UrlSlash

FormNames == {<<>>, NameBlank, NameA}
FormUrls == {<<>>, UrlBlank, UrlSlash, UrlQuery}

\* the user can type and submit while a further request is possible
CanEdit ==
    /\ request = None
    /\ proc.pc = "none"
    /\ requests < MaxRequests

\* onChange of the name input
SetName(n) ==
    /\ CanEdit
    /\ form' = [form EXCEPT !.name = n]
    /\ UNCHANGED <<root, response, parserVars, fileVars, overviewVars, uiVars, request, requests, http,
                   tempFiles, tempWritten, timers, cliExists, proc>>

addUrlField ==
    /\ CanEdit
    /\ Len(form.urls) < MaxUrls
    /\ form' = [form EXCEPT !.urls = Append(@, <<>>)]
    /\ UNCHANGED <<root, response, parserVars, fileVars, overviewVars, uiVars, request, requests, http,
                   tempFiles, tempWritten, timers, cliExists, proc>>

removeUrlField(index) ==
    /\ CanEdit
    /\ index \in 1..Len(form.urls)
    /\ form' = [form EXCEPT !.urls = SubSeq(@, 1, index - 1)
                                      \o SubSeq(@, index + 1, Len(@))]
    /\ UNCHANGED <<root, response, parserVars, fileVars, overviewVars, uiVars, request, requests, http,
                   tempFiles, tempWritten, timers, cliExists, proc>>

updateUrl(index, value) ==
    /\ CanEdit
    /\ index \in 1..Len(form.urls)
    /\ form' = [form EXCEPT !.urls[index] = value]
    /\ UNCHANGED <<root, response, parserVars, fileVars, overviewVars, uiVars, request, requests, http,
                   tempFiles, tempWritten, timers, cliExists, proc>>

\* handleSubmit up to the call of onSubmit (handleNewAnalysis posts the
\* config it is given): nothing happens for a blank name or when no URL
\* field is non-blank
handleSubmit ==
    /\ CanEdit
    /\ trim(form.name) # <<>>
    /\ Len(FilterNonBlank(form.urls)) # 0
    /\ request' = Some([name |-> Some(form.name),
                        urls |-> Some(FilterNonBlank(form.urls)),
                        via  |-> "form"])
    /\ requests' = requests + 1
    /\ UNCHANGED <<root, response, parserVars, fileVars, overviewVars, uiVars, form, http, tempFiles,
                   tempWritten, timers, cliExists, proc>>

\* Bodies another client may post: name and urls missing, empty or given
ApiConfigs ==
    {[name |-> n, urls |-> u, via |-> "api"] :
        n \in {None, Some(<<>>), Some(NameA)},
        u \in {None, Some(<<>>), Some(<<UrlBlank>>), Some(<<UrlSlash>>),
               Some(<<UrlSlash, UrlSlash>>)}}

\* a request that does not come from the form
DirectRequest(config) ==
    /\ CanEdit
    /\ request' = Some(config)
    /\ requests' = requests + 1
    /\ UNCHANGED <<root, response, parserVars, fileVars, overviewVars, uiVars, form, http, tempFiles,
                   tempWritten, timers, cliExists, proc>>

\* !config.name || !config.urls || config.urls.length === 0
InvalidConfig(config) ==
    \/ config.name = None
    \/ Val(config.name) = <<>>
    \/ config.urls = None
    \/ Len(Val(config.urls)) = 0

HttpResponse(status, via) == [status |-> status, via |-> via, sent |-> FALSE]

\* The spawned process: its arguments (--name, --file), the lines the
\* temporary file was written with (urls.join("\n")), and its progress
Spawned(name, file, lines) ==
    [pc        |-> "spawned",
     name      |-> name,
     file      |-> file,
     lines     |-> lines,
     urls      |-> <<>>,     \* the URL list, once read
     dir       |-> 0,        \* position of the run directory in the listing
     next      |-> 1,        \* the URL whose audit is started next
     inflight  |-> {},       \* URLs whose audit subprocess is running
     targets   |-> <<>>,     \* output filename given to each audit started
     started   |-> <<>>,     \* URLs audited, in the order of their start
     attempted |-> 0,
     succeeded |-> 0,
     failed    |-> 0]

\* POST that validates after the temporary file is written
POSTValidatingLate ==
    /\ IsSome(request)
    /\ LET config == Val(request)
           file == requests
       IN /\ tempWritten' = tempWritten \cup {file}
          /\ IF InvalidConfig(config)
             THEN /\ http' = Some(HttpResponse(400, config.via))
                  /\ tempFiles' = tempFiles \cup {file}
                  /\ UNCHANGED <<timers, proc>>
             ELSE IF ~cliExists
             THEN /\ http' = Some(HttpResponse(500, config.via))
                  /\ UNCHANGED <<tempFiles, timers, proc>>
             ELSE /\ tempFiles' = tempFiles \cup {file}
                  /\ proc' = Spawned(Val(config.name), file, Val(config.urls))
                  /\ timers' = timers \cup {file}
                  /\ http' = Some(HttpResponse(200, config.via))
    /\ request' = None
    /\ UNCHANGED <<root, response, parserVars, fileVars, overviewVars, uiVars, form, requests, cliExists>>

\* POST /api/run-analysis, from request.json() to the return statement: 400
\* for an invalid config; else the URLs are written to a temporary file;
\* 500 (and the file removed) when the binary is missing; else the
\* orchestrator is spawned, the clean-up timer is armed and the handler
\* returns success without waiting for the process
POST ==
    /\ IsSome(request)
    /\ LET config == Val(request)
           file == requests
       IN IF InvalidConfig(config)
          THEN /\ http' = Some(HttpResponse(400, config.via))
               /\ UNCHANGED <<tempFiles, tempWritten, timers, proc>>
          ELSE /\ tempWritten' = tempWritten \cup {file}
               /\ IF ~cliExists
                  THEN /\ http' = Some(HttpResponse(500, config.via))
                       /\ UNCHANGED <<tempFiles, timers, proc>>
                  ELSE /\ tempFiles' = tempFiles \cup {file}
                       /\ proc' = Spawned(Val(config.name), file, Val(config.urls))
                       /\ timers' = timers \cup {file}
                       /\ http' = Some(HttpResponse(200, config.via))
    /\ request' = None
    /\ UNCHANGED <<root, response, parserVars, fileVars, overviewVars, uiVars, form, requests, cliExists>>

\* The response reaches the client; after a successful submit the form is
\* reset (handleSubmit after await onSubmit)
Respond ==
    /\ IsSome(http)
    /\ ~Val(http).sent
    /\ http' = Some([Val(http) EXCEPT !.sent = TRUE])
    /\ form' = IF Val(http).via = "form" /\ Val(http).status = 200
               THEN InitialConfig ELSE form
    /\ UNCHANGED <<root, response, parserVars, fileVars, overviewVars, uiVars, request, requests,
                   tempFiles, tempWritten, timers, cliExists, proc>>

\* The setTimeout callback: the temporary file is removed if still there
CleanUp(file) ==
    /\ file \in timers
    /\ timers' = timers \ {file}
    /\ tempFiles' = tempFiles \ {file}
    /\ UNCHANGED <<root, response, parserVars, fileVars, overviewVars, uiVars, form, request, requests,
                   http, tempWritten, cliExists, proc>>

\* The filename sanitizer: characters that are kept
SafeChars ==
    Digits \cup
    {"a", "b", "c", "d", "e", "f", "g", "h", "i", "j", "k", "l", "m", "n",
     "o", "p", "q", "r", "s", "t", "u", "v", "w", "x", "y", "z",
     "A", "B", "C", "D", "E", "F", "G", "H", "I", "J", "K", "L", "M", "N",
     "O", "P", "Q", "R", "S", "T", "U", "V", "W", "X", "Y", "Z"}

\* every other character becomes a separator, runs of them a single one
RECURSIVE SanitizeBody(_)
SanitizeBody(url) ==
    IF url = <<>> THEN <<>>
    ELSE LET rest == SanitizeBody(Tail(url)) IN
         IF url[1] \in SafeChars THEN <<url[1]>> \o rest
         ELSE IF rest # <<>> /\ rest[1] = "_" THEN rest
         ELSE <<"_">> \o rest

MaxFilenameLength == 100

\* BATCH_ANALYZER_REPORT_PREFIX, default "report"
ReportPrefix == <<"r", "e", "p", "o", "r", "t">>

\* {prefix}_{sanitized_url}__{random_string}.html, the body cut so that the
\* whole name stays within MaxFilenameLength
sanitize(url, prefix, suffix) ==
    LET room == MaxFilenameLength - Len(prefix) - Len(suffix) - 8
        body == SanitizeBody(url)
        cut  == IF Len(body) > room
                THEN SubSeq(body, 1, IF room > 0 THEN room ELSE 0) ELSE body
    IN prefix \o <<"_">> \o cut \o <<"_", "_">> \o suffix \o HtmlSuffix

\* Values the random suffix may take
Suffixes == {<<"k", "1">>, <<"m", "2">>}

\* The start time of the batch, as it appears in the directory name
BatchDate == Date0202

\* The artifact the audit subprocess writes for a URL on success
AuditArtifact(url) ==
    Payload(Some(url),
            Some(Categories(Some(950), Some(800), Some(1000), Some(900))))

InfoText == [kind |-> "text", text |-> <<"i">>]

\* Writing `content` to `filename` of directory i: a new file is added at
\* the end of the listing, an existing one is replaced
WriteInto(r, i, filename, content) ==
    LET files == r.entries[i].files IN
    IF \E j \in 1..Len(files) : files[j].filename = filename
    THEN [r EXCEPT !.entries[i].files =
            [j \in 1..Len(files) |->
               IF files[j].filename = filename
               THEN File(filename, content) ELSE files[j]]]
    ELSE [r EXCEPT !.entries[i].files = Append(@, File(filename, content))]

\* The orchestrator reads its URL file (one URL per line, blank lines
\* ignored) and checks its preconditions
ReadInput ==
    /\ proc.pc = "spawned"
    /\ proc' = IF proc.file \notin tempFiles
               THEN [proc EXCEPT !.pc = "fileError"]
               ELSE LET urls == [i \in 1..Len(FilterNonBlank(proc.lines)) |->
                                   trim(FilterNonBlank(proc.lines)[i])]
                    IN IF proc.name = <<>> \/ urls = <<>>
                       THEN [proc EXCEPT !.pc = "invalidInput"]
                       ELSE [proc EXCEPT !.pc = "ready", !.urls = urls]
    /\ UNCHANGED <<root, response, parserVars, fileVars, overviewVars, uiVars, form, request, requests,
                   http, tempFiles, tempWritten, timers, cliExists>>

\* reportsDir/name_<timestamp-at-start> is created (with reportsDir when it
\* is missing), or cannot be created (DirectoryError, fatal)
CreateRunDir(ok) ==
    /\ proc.pc = "ready"
    /\ IF ok
       THEN /\ root' = [exists  |-> TRUE,
                        entries |-> Append(root.entries,
                                      Dirent(RunDirName(proc.name, BatchDate,
                                                        Time000000),
                                             TRUE, TRUE))]
            /\ proc' = [proc EXCEPT !.pc = "running",
                                    !.dir = Len(root.entries) + 1]
            /\ response' = None
       ELSE /\ proc' = [proc EXCEPT !.pc = "directoryError"]
            /\ UNCHANGED <<root, response>>
    /\ UNCHANGED <<parserVars, fileVars, overviewVars, uiVars, form, request, requests, http,
                   tempFiles, tempWritten, timers, cliExists>>

\* StartAudit without waiting for the running subprocess
StartAuditEarly(suffix) ==
    /\ proc.pc = "running"
    /\ proc.next <= Len(proc.urls)
    /\ proc' = [proc EXCEPT
                  !.inflight = @ \cup {proc.next},
                  !.targets = Append(@, sanitize(proc.urls[proc.next],
                                                ReportPrefix, suffix)),
                  !.started = Append(@, proc.next),
                  !.next = @ + 1]
    /\ UNCHANGED <<root, response, parserVars, fileVars, overviewVars, uiVars, form, request, requests,
                   http, tempFiles, tempWritten, timers, cliExists>>

\* No audit is running: the audit subprocess of the next URL is started,
\* its output directed to a sanitized filename with a fresh random suffix
StartAudit(suffix) ==
    /\ proc.pc = "running"
    /\ proc.inflight = {}
    /\ proc.next <= Len(proc.urls)
    /\ proc' = [proc EXCEPT
                  !.inflight = {proc.next},
                  !.targets = Append(@, sanitize(proc.urls[proc.next],
                                                ReportPrefix, suffix)),
                  !.started = Append(@, proc.next),
                  !.next = @ + 1]
    /\ UNCHANGED <<root, response, parserVars, fileVars, overviewVars, uiVars, form, request, requests,
                   http, tempFiles, tempWritten, timers, cliExists>>

\* ExitAudit that gives up the batch at the first failure
ExitAuditAborting(ok) ==
    /\ proc.pc = "running"
    /\ \E i \in proc.inflight :
         IF ok
         THEN /\ root' = WriteInto(root, proc.dir, proc.targets[i],
                                   AuditArtifact(proc.urls[i]))
              /\ response' = None
              /\ proc' = [proc EXCEPT !.inflight = @ \ {i},
                                      !.attempted = @ + 1,
                                      !.succeeded = @ + 1]
         ELSE /\ UNCHANGED <<root, response>>
              /\ proc' = [proc EXCEPT !.inflight = @ \ {i},
                                      !.pc = "done",
                                      !.attempted = @ + 1,
                                      !.failed = @ + 1]
    /\ UNCHANGED <<parserVars, fileVars, overviewVars, uiVars, form, request, requests, http,
                   tempFiles, tempWritten, timers, cliExists>>

\* The running audit subprocess exits: with status zero it has written its
\* artifact; a non-zero exit or crash is counted and the batch goes on
ExitAudit(ok) ==
    /\ proc.pc = "running"
    /\ \E i \in proc.inflight :
         IF ok
         THEN /\ root' = WriteInto(root, proc.dir, proc.targets[i],
                                   AuditArtifact(proc.urls[i]))
              /\ response' = None
              /\ proc' = [proc EXCEPT !.inflight = @ \ {i},
                                      !.attempted = @ + 1,
                                      !.succeeded = @ + 1]
         ELSE /\ UNCHANGED <<root, response>>
              /\ proc' = [proc EXCEPT !.inflight = @ \ {i},
                                      !.attempted = @ + 1,
                                      !.failed = @ + 1]
    /\ UNCHANGED <<parserVars, fileVars, overviewVars, uiVars, form, request, requests, http,
                   tempFiles, tempWritten, timers, cliExists>>

\* All URLs were attempted: the metadata file may be written and the result
\* (attempted, succeeded, failed, run directory) is reported
Finish(writeInfo) ==
    /\ proc.pc = "running"
    /\ proc.inflight = {}
    /\ proc.next > Len(proc.urls)
    /\ IF writeInfo
       THEN /\ root' = WriteInto(root, proc.dir, InfoFileName, InfoText)
            /\ response' = None
       ELSE UNCHANGED <<root, response>>
    /\ proc' = [proc EXCEPT !.pc = "done"]
    /\ UNCHANGED <<parserVars, fileVars, overviewVars, uiVars, form, request, requests, http,
                   tempFiles, tempWritten, timers, cliExists>>

BatchInit ==
    /\ root \in {NoRoot, [exists |-> TRUE, entries |-> <<>>]}
    /\ response = None
    /\ artifact = NoArtifact
    /\ parsed = None
    /\ collections = <<>>
    /\ selectedCollection = None
    /\ selectedRun = None
    /\ selectedUrl = None
    /\ progressionData = <<>>
    /\ OverviewMounted
    /\ FileRouteIdle
    /\ form = InitialConfig
    /\ request = None
    /\ requests = 0
    /\ http = None
    /\ tempFiles = {}
    /\ tempWritten = {}
    /\ timers = {}
    /\ cliExists \in BOOLEAN
    /\ proc = NoProcess

BatchNext ==
    \/ \E n \in FormNames : SetName(n)
    \/ addUrlField
    \/ \E index \in 1..MaxUrls : removeUrlField(index)
    \/ \E index \in 1..MaxUrls, value \in FormUrls : updateUrl(index, value)
    \/ handleSubmit
    \/ \E config \in ApiConfigs : DirectRequest(config)
    \/ POST
    \/ Respond
    \/ \E file \in 1..MaxRequests : CleanUp(file)
    \/ ReadInput
    \/ \E ok \in BOOLEAN : CreateRunDir(ok)
    \/ \E suffix \in Suffixes : StartAudit(suffix)
    \/ \E ok \in BOOLEAN : ExitAudit(ok)
    \/ \E writeInfo \in BOOLEAN : Finish(writeInfo)
    \/ GET

BatchSpec == BatchInit /\ [][BatchNext]_vars

\* The orchestrator is a running process and every audit subprocess comes
\* to an end: each of its steps is taken once it stays possible
BatchFairSpec ==
    /\ BatchSpec
    /\ WF_vars(\E suffix \in Suffixes : StartAudit(suffix))
    /\ WF_vars(\E ok \in BOOLEAN : ExitAudit(ok))
    /\ WF_vars(\E writeInfo \in BOOLEAN : Finish(writeInfo))

----------------------------------------------------------------------------
(* Vocabulary of the properties                                            *)

\* A GET has been answered and the reports root is still as it found it
Answered == IsSome(response)
Returned == Val(response).reports

\* name = <base>_<8 digits>_<6 digits> with a non-empty base
HasRunPattern(name) ==
    \E b \in 1..Len(name) :
        /\ Len(name) = b + 16
        /\ \A i \in 1..b : name[i] \notin {"\n", "\r"}
        /\ name[b + 1] = "_"
        /\ \A i \in (b + 2)..(b + 9) : name[i] \in Digits
        /\ name[b + 10] = "_"
        /\ \A i \in (b + 11)..(b + 16) : name[i] \in Digits

BaseNameOf(name) == SubSeq(name, 1, Len(name) - 16)

\* the run directories on disk
RunDirIndexes ==
    {i \in 1..Len(root.entries) :
        root.entries[i].isDirectory /\ HasRunPattern(root.entries[i].name)}

\* the (collection, run) positions of the returned body
RunPositions ==
    {p \in (1..Len(Returned)) \X (1..(MaxDirs + 1)) :
        p[2] <= Len(Returned[p[1]].runs)}

RunAt(p) == Returned[p[1]].runs[p[2]]

\* m is num/den rounded to the nearest integer, halves up
RoundsTo(m, num, den) ==
    /\ 2 * den * m - den <= 2 * num
    /\ 2 * num < 2 * den * m + den

\* the reports root without its i-th entry
RemoveEntry(r, i) ==
    [r EXCEPT !.entries = SubSeq(@, 1, i - 1) \o SubSeq(@, i + 1, Len(@))]

\* the reports root with the content of file j of entry i replaced
ReplaceContent(r, i, j, content) ==
    [r EXCEPT !.entries[i].files[j].content = content]

IsHtml(file) ==
    /\ Len(file.filename) >= 5
    /\ SubSeq(file.filename, Len(file.filename) - 4, Len(file.filename))
         = <<".", "h", "t", "m", "l">>

\* C1: in every returned collection the runs are in descending timestamp
\* order and lastRun is the first of them, the run with the greatest
\* timestamp (timestamps are fixed-width "YYYY-MM-DD HH:MM:SS" strings)
C1_RunsNewestFirst ==
    Answered =>
      \A c \in 1..Len(Returned) :
        LET runs == Returned[c].runs IN
        /\ \A i, j \in 1..Len(runs) :
             i < j => StrLeq(runs[j].timestamp, runs[i].timestamp)
        /\ runs # <<>> => Returned[c].lastRun = Some(runs[1])

\* C2: one collection per base name of the run directories on disk, and
\* every run directory appears as exactly one run, in the collection of its
\* base name
C2_OneCollectionPerBaseName ==
    Answered =>
      /\ \A c1, c2 \in 1..Len(Returned) :
           Returned[c1].name = Returned[c2].name => c1 = c2
      /\ \A p \in RunPositions :
           /\ RunAt(p).name = Returned[p[1]].name
           /\ \E i \in RunDirIndexes : root.entries[i].name = RunAt(p).full_name
      /\ \A i \in RunDirIndexes :
           /\ \E p \in RunPositions :
                /\ RunAt(p).full_name = root.entries[i].name
                /\ Returned[p[1]].name = BaseNameOf(root.entries[i].name)
           /\ \A p, q \in RunPositions :
                (RunAt(p).full_name = root.entries[i].name
                   /\ RunAt(q).full_name = root.entries[i].name) => p = q

\* C3: a directory whose name does not have the run pattern yields no run,
\* raises no error, and the body is the one returned without that directory
C3_NonMatchingIgnored ==
    Answered =>
      \A i \in 1..Len(root.entries) :
        (root.entries[i].isDirectory /\ ~HasRunPattern(root.entries[i].name)) =>
          /\ \A p \in RunPositions : RunAt(p).full_name # root.entries[i].name
          /\ Returned = parseReportsDirectory(RemoveEntry(root, i))
          /\ ParseOutcome(root).threw => ParseOutcome(RemoveEntry(root, i)).threw

\* a non-matching directory sits next to directories that yield collections
C3_Witness ==
    /\ Answered
    /\ Returned # <<>>
    /\ \E i \in 1..Len(root.entries) :
         root.entries[i].isDirectory /\ ~HasRunPattern(root.entries[i].name)

\* the html files of the directory a returned run was built from
HtmlFilesOf(fullName) ==
    LET i == CHOOSE k \in 1..Len(root.entries) : root.entries[k].name = fullName
    IN SelectSeq(root.entries[i].files, IsHtml)

NoData(filename) ==
    [filename |-> filename, url |-> None, score |-> None, metrics |-> NoMetrics]

\* a and b are the same body but for the report of `filename` in the run of
\* directory `fullName`, which in a carries no data
SameButNoData(a, b, fullName, filename) ==
    /\ Len(a) = Len(b)
    /\ \A c \in 1..Len(a) :
         /\ a[c].name = b[c].name
         /\ Len(a[c].runs) = Len(b[c].runs)
         /\ \A k \in 1..Len(a[c].runs) :
              LET ra == a[c].runs[k]
                  rb == b[c].runs[k]
              IN /\ ra.full_name = rb.full_name
                 /\ ra.full_name # fullName => ra = rb
                 /\ ra.full_name = fullName =>
                      /\ Len(ra.reports) = Len(rb.reports)
                      /\ \A m \in 1..Len(ra.reports) :
                           IF rb.reports[m].filename = filename
                           THEN ra.reports[m] = NoData(filename)
                           ELSE ra.reports[m] = rb.reports[m]

\* C4: an artifact without marker or with a malformed payload is listed in
\* its run with no url and no score, raises no error, and everything else in
\* the body is what it would be had the artifact carried a payload
C4_BrokenArtifactIsNoData ==
    Answered =>
      \A i \in 1..Len(root.entries) : \A j \in 1..Len(root.entries[i].files) :
        LET f == root.entries[i].files[j] IN
        (IsHtml(f) /\ f.content.kind \in {"nomarker", "malformed"}) =>
          /\ \A p \in RunPositions :
               RunAt(p).full_name = root.entries[i].name =>
                 \E m \in 1..Len(RunAt(p).reports) :
                   RunAt(p).reports[m] = NoData(f.filename)
          /\ \A good \in {PayloadA, PayloadEmpty} :
               /\ SameButNoData(Returned,
                                parseReportsDirectory(ReplaceContent(root, i, j, good)),
                                root.entries[i].name, f.filename)
               /\ ParseOutcome(root).threw =>
                    ParseOutcome(ReplaceContent(root, i, j, good)).threw

\* a run is returned that holds a broken artifact next to a parsed one
C4_Witness ==
    /\ Answered
    /\ \E p \in RunPositions :
         /\ Len(RunAt(p).reports) = 2
         /\ \E m, n \in 1..2 :
              /\ RunAt(p).reports[m].score = None
              /\ IsSome(RunAt(p).reports[n].score)

\* score || 0, summed over the reports of a run
RECURSIVE SumOfScores(_)
SumOfScores(files) ==
    IF files = <<>> THEN 0
    ELSE (IF files[1].score = None THEN 0 ELSE files[1].score[1])
         + SumOfScores(Tail(files))

\* C7: a run's avgScore is the rounded mean of its reports' scores over all
\* html files of its directory, an artifact without score counting as 0; a
\* run directory without artifacts is returned as a run with avgScore 0
C7_RunScoreIsRoundedMean ==
    Answered =>
      /\ \A p \in RunPositions :
           LET run == RunAt(p)
               n == Len(HtmlFilesOf(run.full_name))
           IN /\ Len(run.reports) = n
              /\ IF n = 0 THEN run.avgScore = 0
                 ELSE RoundsTo(run.avgScore, SumOfScores(run.reports), n)
      /\ Returned # <<>> =>
           \A i \in RunDirIndexes :
             \E p \in RunPositions : RunAt(p).full_name = root.entries[i].name

\* a run with a parsed and an unparsed artifact next to a run without any
C7_Witness ==
    /\ Answered
    /\ \E p, q \in RunPositions :
         /\ Len(RunAt(p).reports) = 2
         /\ \E m, n \in 1..2 :
              /\ RunAt(p).reports[m].score = None
              /\ IsSome(RunAt(p).reports[n].score)
         /\ RunAt(p).avgScore > 0
         /\ RunAt(q).reports = <<>>
         /\ RunAt(q).avgScore = 0

\* the string holds a "%" that is not followed by two hexadecimal digits, so
\* that percent-decoding it fails
HasBadEscape(u) ==
    \E k \in 1..Len(u) :
        /\ u[k] = "%"
        /\ ~(/\ k + 2 <= Len(u)
             /\ u[k + 1] \in HexDigits
             /\ u[k + 2] \in HexDigits)

\* metrics holds, for each category of the payload, its score as a rounded
\* percentage, and nothing for a category the payload lacks
MetricsOfPayload(metrics, data) ==
    \A key \in {"performance", "accessibility", "bestPractices", "seo"} :
        IF data.categories = None \/ data.categories[1][key] = None
        THEN metrics[key] = None
        ELSE /\ metrics[key] # None
             /\ RoundsTo(metrics[key][1], data.categories[1][key][1], 10)

\* score is the rounded mean of the percentages present in metrics, 0 if none
ScoreOfMetrics(score, metrics) ==
    LET present == {key \in {"performance", "accessibility", "bestPractices", "seo"} :
                      metrics[key] # None}
        total == (IF metrics.performance = None THEN 0 ELSE metrics.performance[1])
                 + (IF metrics.accessibility = None THEN 0 ELSE metrics.accessibility[1])
                 + (IF metrics.bestPractices = None THEN 0 ELSE metrics.bestPractices[1])
                 + (IF metrics.seo = None THEN 0 ELSE metrics.seo[1])
    IN IF present = {} THEN score = 0
       ELSE RoundsTo(score, total, Cardinality(present))

\* C8: an artifact whose canonical URL cannot be percent-decoded is in its
\* run with the raw URL and with the scores of its payload
C8_UndecodableUrlKept ==
    Answered =>
      \A i \in 1..Len(root.entries) : \A j \in 1..Len(root.entries[i].files) :
        LET f == root.entries[i].files[j] IN
        (/\ IsHtml(f)
         /\ f.content.kind = "payload"
         /\ f.content.data.finalDisplayedUrl # None
         /\ HasBadEscape(f.content.data.finalDisplayedUrl[1])) =>
          \A p \in RunPositions :
            RunAt(p).full_name = root.entries[i].name =>
              \E m \in 1..Len(RunAt(p).reports) :
                LET rep == RunAt(p).reports[m] IN
                /\ rep.filename = f.filename
                /\ rep.url = f.content.data.finalDisplayedUrl
                /\ rep.score # None
                /\ MetricsOfPayload(rep.metrics, f.content.data)
                /\ ScoreOfMetrics(rep.score[1], rep.metrics)

\* a returned run holds the artifact with the undecodable URL "b%": scores
\* 51 and 30, overall 41
C8_Witness ==
    /\ Answered
    /\ \E p \in RunPositions : \E m \in 1..Len(RunAt(p).reports) :
         /\ RunAt(p).reports[m].url = Some(UrlBadEscape)
         /\ RunAt(p).reports[m].score = Some(41)
         /\ RunAt(p).reports[m].metrics.performance = Some(51)

IsSortedAscending(q) ==
    \A i, j \in 1..Len(q) : i < j => StrLeq(q[i], q[j])

Occurrences(q, x) == Cardinality({i \in 1..Len(q) : q[i] = x})

\* C10 as stated: the urls of a collection are sorted and are exactly the
\* urls carried by the reports of one of its runs
C10_UrlsAreUrlsOfOneRun ==
    Answered =>
      \A c \in 1..Len(Returned) :
        /\ IsSortedAscending(Returned[c].urls)
        /\ \E k \in 1..Len(Returned[c].runs) :
             LET reps == Returned[c].runs[k].reports IN
             /\ \A e \in 1..Len(Returned[c].urls) :
                  \E m \in 1..Len(reps) : reps[m].url = Some(Returned[c].urls[e])
             /\ \A m \in 1..Len(reps) :
                  reps[m].url # None =>
                    \E e \in 1..Len(Returned[c].urls) :
                      Returned[c].urls[e] = reps[m].url[1]

\* C10 amended: the urls of a collection are sorted and hold one entry per
\* report of one of its runs: the report's url, or "" when it has none
C10_UrlsOrEmptyOfOneRun ==
    Answered =>
      \A c \in 1..Len(Returned) :
        /\ IsSortedAscending(Returned[c].urls)
        /\ \E k \in 1..Len(Returned[c].runs) :
             LET reps == Returned[c].runs[k].reports
                 entries == [m \in 1..Len(reps) |->
                               IF reps[m].url = None THEN <<>> ELSE reps[m].url[1]]
             IN /\ Len(Returned[c].urls) = Len(reps)
                /\ \A m \in 1..Len(reps) :
                     Occurrences(Returned[c].urls, entries[m])
                       = Occurrences(entries, entries[m])

\* a collection whose urls are "" (an artifact without url) and "a", from a
\* run that lists them in the other order
C10_Witness ==
    /\ Answered
    /\ \E c \in 1..Len(Returned) :
         /\ Returned[c].urls = << <<>>, <<"a">> >>
         /\ \E k \in 1..Len(Returned[c].runs) :
              /\ Len(Returned[c].runs[k].reports) = 2
              /\ Returned[c].runs[k].reports[1].url = Some(<<"a">>)

\* C5: every category present in a payload is reported as its rounded
\* percentage, an absent category is left out, and the overall score is the
\* rounded mean of the percentages present; 0.95, 0.80, 1.0, 0.90 give
\* 95, 80, 100, 90 and overall 91
C5_CategoryPercentagesAndMean ==
    (parsed # None /\ artifact.kind = "payload") =>
      /\ MetricsOfPayload(parsed[1].metrics, artifact.data)
      /\ parsed[1].score # None
      /\ ScoreOfMetrics(parsed[1].score[1], parsed[1].metrics)
      /\ artifact.data.categories = PayloadA.data.categories =>
           /\ parsed[1].metrics = [performance |-> <<95>>, accessibility |-> <<80>>,
                                   bestPractices |-> <<100>>, seo |-> <<90>>]
           /\ parsed[1].score = <<91>>

\* a payload with three categories whose scores do not round trivially has
\* been parsed: 0.666 and 0.333 give 67 and 33, and the mean 33.3 gives 33
C5_Witness ==
    /\ parsed # None
    /\ artifact.kind = "payload"
    /\ artifact.data.categories
         = Some(Categories(Some(666), None, Some(333), Some(0)))
    /\ parsed[1].metrics = [performance |-> <<67>>, accessibility |-> <<>>,
                            bestPractices |-> <<33>>, seo |-> <<0>>]
    /\ parsed[1].score = <<33>>

HasNoCategory(data) ==
    \/ data.categories = None
    \/ data.categories = Some(Categories(None, None, None, None))

\* C6: a payload without categories parses to score 0, an artifact without
\* payload to no score at all
C6_ZeroCategoriesIsZeroNotNone ==
    parsed # None =>
      /\ (artifact.kind = "payload" /\ HasNoCategory(artifact.data)) =>
           parsed[1].score = <<0>>
      /\ artifact.kind # "payload" => parsed[1].score = <<>>

\* an artifact without marker has been parsed
C6_Witness ==
    /\ parsed # None
    /\ artifact.kind = "nomarker"
    /\ parsed[1].score = <<>>

\* the runs of the collection in view that hold a report of the selected url
RunsWithSelectedUrl ==
    {k \in 1..Len(selectedCollection[1].runs) :
        \E m \in 1..Len(selectedCollection[1].runs[k].reports) :
            selectedCollection[1].runs[k].reports[m].url = selectedUrl}

\* the series has exactly one point for each run that holds the selected url
PointsAreRunsWithUrl ==
    (selectedCollection # None /\ selectedUrl # None) =>
      /\ Len(progressionData) = Cardinality(RunsWithSelectedUrl)
      /\ \A k \in RunsWithSelectedUrl :
           \E i \in 1..Len(progressionData) :
             progressionData[i].name = selectedCollection[1].runs[k].timestamp
      /\ \A i \in 1..Len(progressionData) :
           \E k \in RunsWithSelectedUrl :
             progressionData[i].name = selectedCollection[1].runs[k].timestamp

\* C9: the series has a point for a run exactly if the run holds a report of
\* the requested url, and the points are in ascending order of timestamp
C9_SparseSeriesOldestFirst ==
    /\ PointsAreRunsWithUrl
    /\ (selectedCollection # None /\ selectedUrl # None) =>
         \A i, j \in 1..Len(progressionData) :
           i < j => StrLess(progressionData[i].name, progressionData[j].name)

----------------------------------------------------------------------------
(* C11: which run gives a collection its urls                              *)

\* the run directories of base name `name`, as positions of the listing
DirsOfBase(name) ==
    {i \in RunDirIndexes : BaseNameOf(root.entries[i].name) = name}

SetMin(S) == CHOOSE x \in S : \A y \in S : x <= y
SetMax(S) == CHOOSE x \in S : \A y \in S : x >= y

\* urls holds one entry per report of the returned run of directory i of
\* collection c: the report's url, or "" when it has none
UrlsAreOfDir(c, i) ==
    \E k \in 1..Len(Returned[c].runs) :
      LET run == Returned[c].runs[k]
          entries == [m \in 1..Len(run.reports) |->
                        IF run.reports[m].url = None THEN <<>>
                        ELSE run.reports[m].url[1]]
      IN /\ run.full_name = root.entries[i].name
         /\ Len(Returned[c].urls) = Len(entries)
         /\ \A m \in 1..Len(entries) :
              Occurrences(Returned[c].urls, entries[m])
                = Occurrences(entries, entries[m])

\* C11 as stated: the urls of a collection are those of the run directory of
\* its base name that the scan observes last
C11_LastObservedWins ==
    Answered =>
      \A c \in 1..Len(Returned) :
        DirsOfBase(Returned[c].name) # {} =>
          UrlsAreOfDir(c, SetMax(DirsOfBase(Returned[c].name)))

\* C11 amended: the urls of a collection are those of the run directory of
\* its base name that the scan observes first
C11_FirstObservedWins ==
    Answered =>
      \A c \in 1..Len(Returned) :
        /\ DirsOfBase(Returned[c].name) # {}
        /\ UrlsAreOfDir(c, SetMin(DirsOfBase(Returned[c].name)))

\* a collection of two runs with different urls, the newer one listed first
C11_Witness ==
    /\ Answered
    /\ \E c \in 1..Len(Returned) :
         /\ Len(Returned[c].runs) = 2
         /\ Cardinality(DirsOfBase(Returned[c].name)) = 2
         /\ Returned[c].runs[1].reports # <<>>
         /\ Returned[c].runs[2].reports # <<>>
         /\ ~UrlsAreOfDir(c, SetMax(DirsOfBase(Returned[c].name)))
         /\ Returned[c].runs[1].full_name
              = root.entries[SetMin(DirsOfBase(Returned[c].name))].name

----------------------------------------------------------------------------
(* C14, C15: a missing reports root; scanning twice                        *)

\* C14: when the reports root does not exist the scan returns the empty
\* list and reports no error
C14_MissingRootIsEmpty ==
    (Answered /\ ~root.exists) =>
      /\ Returned = <<>>
      /\ ~Val(response).consoleError

\* the reports root is missing and has been scanned
C14_Witness == Answered /\ ~root.exists

----------------------------------------------------------------------------
(* C12, C13: scanning while the orchestrator is at work                    *)

\* the orchestrator has created its run directory
HasRunDir == proc.pc \in {"running", "done"}

RunDirFiles == root.entries[proc.dir].files

\* C12: at every moment after the orchestrator created its run directory, a
\* scan completes and returns that directory as a run whose reports are the
\* artifacts present, in listing order, and whose score is the rounded mean
\* over those artifacts (0 when there is none yet)
C12_PartialRunAggregates ==
    (Answered /\ HasRunDir) =>
      /\ ~Val(response).consoleError
      /\ \E p \in RunPositions :
           LET run == RunAt(p)
               present == SelectSeq(RunDirFiles, IsHtml)
           IN /\ run.full_name = root.entries[proc.dir].name
              /\ Len(run.reports) = Len(present)
              /\ \A m \in 1..Len(present) :
                   run.reports[m].filename = present[m].filename
              /\ IF present = <<>> THEN run.avgScore = 0
                 ELSE RoundsTo(run.avgScore, SumOfScores(run.reports),
                               Len(present))

\* a scan answered while the second of two audits is running: the run has
\* the one artifact written so far
C12_Witness ==
    /\ Answered
    /\ proc.pc = "running"
    /\ Len(proc.urls) = 2
    /\ proc.inflight = {2}
    /\ Len(RunDirFiles) = 1
    /\ \E p \in RunPositions :
         /\ RunAt(p).full_name = root.entries[proc.dir].name
         /\ Len(RunAt(p).reports) = 1

\* C13: a scan changes nothing on disk, neither in the reports root nor
\* among the temporary files, whatever the orchestrator is doing
C13_ScanWritesNothing ==
    [][GET => (root' = root /\ tempFiles' = tempFiles)]_vars

\* a scan answered while an audit is running, before any artifact exists
C13_Witness ==
    /\ Answered
    /\ proc.pc = "running"
    /\ proc.inflight # {}
    /\ RunDirFiles = <<>>
    /\ Len(Returned) = 1

----------------------------------------------------------------------------
(* C16 .. C20: the trigger endpoint and the orchestrator                   *)

\* the request has no name, an empty name, no URL list or an empty one
IsEmptyRequest(config) ==
    \/ config.name \in {None, Some(<<>>)}
    \/ config.urls \in {None, Some(<<>>)}

IsBlankString(str) == \A i \in 1..Len(str) : str[i] \in WhiteSpace

\* C16: the endpoint answers a request with an empty name or an empty URL
\* list with 400, writing no temporary file and spawning nothing; the form
\* submits no config with a blank name or without a non-blank URL; and no
\* orchestrator gets to work with an empty name or an empty URL list
C16_EmptyRequestNeverStarts ==
    /\ [][(POST /\ IsSome(request) /\ IsEmptyRequest(Val(request))) =>
            /\ Val(http').status = 400
            /\ tempWritten' = tempWritten
            /\ tempFiles' = tempFiles
            /\ timers' = timers
            /\ proc' = proc]_vars
    /\ []((IsSome(request) /\ Val(request).via = "form") =>
            /\ ~IsBlankString(Val(Val(request).name))
            /\ Val(Val(request).urls) # <<>>
            /\ \A i \in 1..Len(Val(Val(request).urls)) :
                 ~IsBlankString(Val(Val(request).urls)[i]))
    /\ [](proc.pc \in {"ready", "running", "done"} =>
            proc.name # <<>> /\ proc.urls # <<>>)

\* a request with a name and an empty URL list has been answered 400, and
\* nothing was written or spawned
C16_Witness ==
    /\ IsSome(http)
    /\ Val(http).status = 400
    /\ Val(http).sent
    /\ requests = 1
    /\ tempWritten = {}
    /\ proc.pc = "none"

\* C17 as stated: when the success response is sent the run directory
\* exists
C17_RunDirExistsWhenResponding ==
    (IsSome(http) /\ Val(http).sent /\ Val(http).status = 200) => HasRunDir

\* C18: at most one audit subprocess is running, the audits are started in
\* input order, and one is started only after all earlier ones have exited
C18_OneAuditAtATime ==
    proc.pc \in {"running", "done"} =>
      /\ Cardinality(proc.inflight) <= 1
      /\ Len(proc.started) <= Len(proc.urls)
      /\ \A k \in 1..Len(proc.started) : proc.started[k] = k
      /\ proc.inflight \subseteq {Len(proc.started)}
      /\ proc.attempted = Len(proc.started) - Cardinality(proc.inflight)

\* the second audit is running after the first has exited
C18_Witness ==
    /\ proc.pc = "running"
    /\ proc.inflight = {2}
    /\ proc.started = <<1, 2>>
    /\ proc.attempted = 1

\* C19: failures are counted and do not end the batch: succeeded + failed =
\* attempted throughout, a finished batch has attempted every URL of its
\* list exactly once, and a batch that has its run directory finishes
C19_FailureDoesNotAbort ==
    /\ [](proc.pc \in {"running", "done"} =>
            /\ proc.succeeded + proc.failed = proc.attempted
            /\ \A i, j \in 1..Len(proc.started) :
                 proc.started[i] = proc.started[j] => i = j)
    /\ [](proc.pc = "done" =>
            /\ proc.attempted = Len(proc.urls)
            /\ \A u \in 1..Len(proc.urls) :
                 \E k \in 1..Len(proc.started) : proc.started[k] = u)
    /\ (proc.pc = "running") ~> (proc.pc = "done")

\* a finished batch of two URLs whose first audit failed and whose second
\* succeeded
C19_Witness ==
    /\ proc.pc = "done"
    /\ Len(proc.urls) = 2
    /\ proc.failed = 1
    /\ proc.succeeded = 1
    /\ Len(RunDirFiles) >= 1

----------------------------------------------------------------------------
(* C21: a run is identified by its base name and timestamp                 *)

\* s reads dddd-dd-dd dd:dd:dd
IsTimestampShape(s) ==
    /\ Len(s) = 19
    /\ \A i \in {1, 2, 3, 4, 6, 7, 9, 10, 12, 13, 15, 16, 18, 19} : s[i] \in Digits
    /\ s[5] = "-" /\ s[8] = "-" /\ s[11] = " " /\ s[14] = ":" /\ s[17] = ":"

\* C21: the full_name of every returned run is its name, '_', the eight
\* date digits of its timestamp, '_', the six time digits; full_name is the
\* name of a directory on disk; and no two returned runs share both name and
\* timestamp
C21_RunIdentifiedByNameAndTimestamp ==
    Answered =>
      /\ \A p \in RunPositions :
           LET run == RunAt(p)
               digits == SelectSeq(run.timestamp, IsDigit)
           IN /\ IsTimestampShape(run.timestamp)
              /\ run.name = Returned[p[1]].name
              /\ run.full_name = run.name \o <<"_">> \o SubSeq(digits, 1, 8)
                                   \o <<"_">> \o SubSeq(digits, 9, 14)
              /\ \E i \in RunDirIndexes : root.entries[i].name = run.full_name
      /\ \A p, q \in RunPositions :
           (RunAt(p).name = RunAt(q).name
              /\ RunAt(p).timestamp = RunAt(q).timestamp) => p = q

\* two runs of one base name with different timestamps have been returned
C21_Witness ==
    /\ Answered
    /\ \E p, q \in RunPositions :
         /\ p # q
         /\ RunAt(p).name = RunAt(q).name
         /\ RunAt(p).timestamp # RunAt(q).timestamp

----------------------------------------------------------------------------
(* The overview's ordering of the collections                              *)

\* a comes strictly before b by the key of the sort option: the later (or
\* earlier) lastRun timestamp of two calendar dates, the name that collates
\* first, the higher lastRun score, the higher number of pages of lastRun
KeyBefore(a, b, by) ==
    LET lastRunA == Val(a.lastRun)
        lastRunB == Val(b.lastRun)
        dated == /\ IsSome(getTime(lastRunA.timestamp))
                 /\ IsSome(getTime(lastRunB.timestamp))
    IN CASE by = "newest" ->
              dated /\ StrLess(lastRunB.timestamp, lastRunA.timestamp)
         [] by = "oldest" ->
              dated /\ StrLess(lastRunA.timestamp, lastRunB.timestamp)
         [] by = "name" -> localeCompare(a.name, b.name) < 0
         [] by = "score" -> lastRunA.avgScore > lastRunB.avgScore
         [] by = "pages" -> Len(lastRunA.reports) > Len(lastRunB.reports)

PositionIn(q, x) == CHOOSE i \in 1..Len(q) : q[i] = x

\* C22: the list the overview displays is a permutation of the collections
\* that pass the search and the score filter, ordered by the key of the
\* selected sort option (no collection is displayed behind one that its key
\* puts it strictly before), and collections with equal keys keep the order
\* of the fetched list
C22_DisplayIsStableSortByKey ==
    Rendered = "list" =>
      LET shown == filteredAndSortedCollections
          kept == filteredCollections
      IN /\ Len(shown) = Len(kept)
         /\ \A i \in 1..Len(kept) :
              Occurrences(shown, kept[i]) = Occurrences(kept, kept[i])
         /\ \A i, j \in 1..Len(shown) :
              i < j => ~KeyBefore(shown[j], shown[i], sortBy)
         /\ \A i, j \in 1..Len(shown) :
              (/\ i < j
               /\ ~KeyBefore(shown[i], shown[j], sortBy)
               /\ ~KeyBefore(shown[j], shown[i], sortBy))
                 => PositionIn(collections, shown[i])
                      < PositionIn(collections, shown[j])

----------------------------------------------------------------------------
(* The differences of the progression table                                *)

\* the differences of every row are taken from the first point of the series
DiffsAreFromFirstPoint ==
    \A i \in 1..Len(progressionData) : \A metric \in ProgressionMetrics :
        ProgressionDiffs(progressionData, i)[metric]
            = progressionData[i][metric] - progressionData[1][metric]

\* C23: the difference shown for a metric at a point of the series is the
\* value at that point minus the value at the oldest point of the series
\* (the point of the earliest timestamp), which is 0 at the oldest point
C23_DiffsAreFromOldestPoint ==
    \A i, o \in 1..Len(progressionData) :
        (\A j \in 1..Len(progressionData) :
            StrLeq(progressionData[o].name, progressionData[j].name))
        => \A metric \in ProgressionMetrics :
             ProgressionDiffs(progressionData, i)[metric]
                 = progressionData[i][metric] - progressionData[o][metric]

----------------------------------------------------------------------------
(* The file route and the report links                                     *)

\* the components of the path that <reports directory>/directory/filename
\* names
ResolvedParts(reportPath) ==
    NormalizeParts(<<<<"a", "p", "p">>, ReportsName>>
                     \o split(reportPath[1], "/") \o split(reportPath[2], "/"),
                   <<>>)

\* the path is not the reports directory nor below it
ResolvesOutside(reportPath) ==
    LET parts == ResolvedParts(reportPath)
    IN ~(Len(parts) >= 2 /\ parts[1] = <<"a", "p", "p">> /\ parts[2] = ReportsName)

\* C24: a request whose two path segments resolve outside the reports
\* directory is answered 403, and never with the contents of a file
C24_OutsideReportsIsForbidden ==
    (IsSome(served) /\ Len(Val(served).path) = 2
       /\ ResolvesOutside(Val(served).path))
      => Val(served).response = [status |-> 403]

\* C29: the link that View and Download open for a report file of a Run is
\* answered with the contents of that file in the directory the Run was
\* scanned from
C29_ReportLinkAddressesFile ==
    (IsSome(served) /\ IsSome(Val(served).link)) =>
      LET link == Val(Val(served).link)
          i == CHOOSE k \in 1..Len(root.entries) :
                 root.entries[k].name = link.full_name
          j == CHOOSE k \in 1..Len(root.entries[i].files) :
                 root.entries[i].files[k].filename = link.filename
      IN Val(served).response
           = [status |-> 200, body |-> root.entries[i].files[j].content]

----------------------------------------------------------------------------
(* The temporary URL file and its delayed removal                          *)

\* C25: while the spawned orchestrator has not read its URL file the file
\* exists, and the orchestrator never finds it missing
C25_TempFileOutlivesItsReader ==
    /\ proc.pc = "spawned" => proc.file \in tempFiles
    /\ proc.pc # "fileError"

----------------------------------------------------------------------------
(* Collections and their runs                                              *)

\* C26: every returned collection has at least one run, and its lastRun is
\* defined and is one of its runs
C26_CollectionHasLastRun ==
    Answered =>
      \A c \in 1..Len(Returned) :
        /\ Len(Returned[c].runs) >= 1
        /\ IsSome(Returned[c].lastRun)
        /\ \E k \in 1..Len(Returned[c].runs) :
             Returned[c].runs[k] = Val(Returned[c].lastRun)

C26_Witness ==
    /\ Answered
    /\ \E c \in 1..Len(Returned) :
         /\ Len(Returned[c].runs) = 2
         /\ Val(Returned[c].lastRun) = Returned[c].runs[1]
         /\ Returned[c].runs[1] # Returned[c].runs[2]

----------------------------------------------------------------------------
(* Directories the scan cannot process                                     *)

\* the run directories that make the scan throw outside the guards of the
\* artifacts and of info.txt: those that cannot be listed, and those whose
\* base name is an inherited property name
FailingDirIndexes ==
    {i \in RunDirIndexes :
        \/ ~root.entries[i].listable
        \/ BaseNameOf(root.entries[i].name) \in ObjectPrototypeKeys}

\* C27: when a run directory of the reports root cannot be processed, the
\* scan ends in its catch block and returns the empty list, without the
\* collections of the other run directories
C27_ScanIsAllOrNothing ==
    (Answered /\ FailingDirIndexes # {}) =>
      /\ Returned = <<>>
      /\ Val(response).consoleError

C27_Witness ==
    /\ Answered
    /\ FailingDirIndexes # {}
    /\ RunDirIndexes \ FailingDirIndexes # {}
    /\ Returned = <<>>

----------------------------------------------------------------------------
(* Runs that hold a page more than once                                    *)

\* the positions of the reports of the selected url in run k of the
\* collection in view
ReportsOfSelectedUrl(k) ==
    {m \in 1..Len(selectedCollection[1].runs[k].reports) :
        selectedCollection[1].runs[k].reports[m].url = selectedUrl}

\* C28: the series has at most one point for each run, no more points than
\* the collection has runs, and the point of a run shows the first report of
\* the requested url in the run's report order; without a requested url
\* there is no series, so a report without url is in no series
C28_OnePointPerRunFromFirstReport ==
    IsSome(selectedCollection) =>
      LET runs == selectedCollection[1].runs IN
      /\ Len(progressionData) <= Len(runs)
      /\ \A i, j \in 1..Len(progressionData) :
           progressionData[i].name = progressionData[j].name => i = j
      /\ \A i \in 1..Len(progressionData) :
           \E k \in 1..Len(runs) :
             /\ runs[k].timestamp = progressionData[i].name
             /\ ReportsOfSelectedUrl(k) # {}
             /\ LET first == runs[k].reports[SetMin(ReportsOfSelectedUrl(k))]
                IN /\ progressionData[i].overall = OrZero(first.score)
                   /\ progressionData[i].performance
                        = OrZero(first.metrics.performance)
      /\ ~IsSome(selectedUrl) => progressionData = <<>>

C28_Witness ==
    /\ IsSome(selectedCollection)
    /\ IsSome(selectedUrl)
    /\ Len(progressionData) = 2
    /\ \E k \in 1..Len(selectedCollection[1].runs) :
         /\ Cardinality(ReportsOfSelectedUrl(k)) = 2
         /\ \E m, n \in ReportsOfSelectedUrl(k) :
              selectedCollection[1].runs[k].reports[m].score
                # selectedCollection[1].runs[k].reports[n].score

----------------------------------------------------------------------------
(* The error state of the overview                                         *)

\* C30: once error is set no step clears it and the list is not rendered
\* any more, also after a later fetch has succeeded; and every fetch that
\* completes, successfully or not, leaves loading false
C30_ErrorIsAbsorbing ==
    [][/\ IsSome(error) => (IsSome(error') /\ Rendered' # "list")
       /\ (Fetched \/ FetchFailed) => ~loading']_vars

C30_Witness ==
    /\ IsSome(error)
    /\ ~loading
    /\ collections # <<>>
    /\ Rendered = "error"

====
